---- MODULE Spec2Model ----
(***************************************************************************)
(* A model of dynamic_string.h: the reference-counted immutable string     *)
(* (ds_string), its structural operations, and the copy-on-write           *)
(* StringBuilder.  The heap is a finite array of blocks; a block is the    *)
(* single allocation [refcount|length|data...] of the library.  A handle   *)
(* is the index of a block (0 is the NULL handle).                         *)
(***************************************************************************)
EXTENDS Integers, Sequences, FiniteSets, TLC

\* ------------------------------------------------------------------ bounds
MaxBlocks  == 3      \* blocks the allocator can hand out in one run
NumHandles == 3      \* ds_string variables the caller holds
MaxLen     == 2      \* longest text argument / source buffer
MaxRetains == 2      \* ds_retain calls counted per block
SizeBits   == 6      \* width of size_t in bits

\* --------------------------------------------------------------- constants
NULL   == 0          \* the NULL handle
NUL    == 0          \* the '\0' terminator byte
Uninit == -1         \* a byte of malloc'ed memory nobody has written yet
DS_SB_INITIAL_CAPACITY == 32
DS_SB_GROWTH_FACTOR    == 2

Byte     == {0, 97, 98}               \* the byte values the inputs draw from
Blocks   == 1..MaxBlocks
Handles  == 1..NumHandles

\* C strings (no embedded NUL; the terminator is implicit) of length <= n
CStrOf(n) == UNION {[1..k -> Byte \ {NUL}] : k \in 0..n}
CStr      == CStrOf(MaxLen)
\* raw source buffers: any bytes, followed in memory by a terminator
Buf       == UNION {[1..k -> Byte] : k \in 0..MaxLen}

VARIABLES
  heap,   \* heap[b]: the block b (ds_internal + data), and how often it was freed
  hv,     \* hv[i]: the caller's i-th ds_string variable (a block, or NULL)
  sb,     \* the caller's ds_stringbuilder: [data, capacity]
  last,   \* the last API call: its name, arguments and return value
  oob,    \* TRUE once some call has read or written outside an allocation
  iter,   \* the caller's ds_codepoint_iter: [data, pos, end]
  thr     \* thr[t]: thread t's position in its ds_retain / ds_release call

vars == <<heap, hv, sb, last, oob, iter, thr>>

Min(a, b) == IF a < b THEN a ELSE b

\* ------------------------------------------------------------------- heap
\* A block that malloc has not handed out yet.
UnusedBlock ==
  [st |-> "unused", refcount |-> 0, length |-> 0, data |-> <<>>,
   frees |-> 0, retains |-> 0, releases |-> 0]

\* DS_MALLOC returns a block that was never handed out before.
HasFresh(hp) == \E b \in Blocks : hp[b].st = "unused"
Fresh(hp)    == CHOOSE b \in Blocks :
                  /\ hp[b].st = "unused"
                  /\ \A c \in Blocks : hp[c].st = "unused" => b <= c

\* malloc(sizeof(ds_internal) + size): size data bytes, all indeterminate.
RawBlock(size) ==
  [st |-> "live", refcount |-> 0, length |-> 0,
   data |-> [i \in 1..size |-> Uninit],
   frees |-> 0, retains |-> 0, releases |-> 0]

\* memcpy(dst + off, bytes, Len(bytes)) restricted to the allocation dst.
MemWrite(data, off, bytes) ==
  [i \in 1..Len(data) |->
     IF off < i /\ i <= off + Len(bytes) THEN bytes[i - off] ELSE data[i]]

\* the n bytes at data + off (0-based offset)
MemRead(data, off, n) == [i \in 1..n |-> data[off + i]]

\* strlen: the 0-based position of the first NUL of a terminated array
strlen(arr) ==
  (CHOOSE i \in 1..Len(arr) :
      arr[i] = NUL /\ \A j \in 1..(i - 1) : arr[j] # NUL) - 1

\* ds_alloc(length): refcount 1, the length, length + 1 data bytes, terminated
ds_alloc(hp, b, length) ==
  [hp EXCEPT ![b] = [RawBlock(length + 1) EXCEPT
      !.refcount = 1, !.length = length, !.data[length + 1] = NUL]]

\* ds_dealloc / DS_FREE: the block is gone; its memory is not ours to read
ds_dealloc(hp, b) ==
  [hp EXCEPT ![b].st = "freed", ![b].data = <<>>, ![b].frees = @ + 1]

\* the string bytes of a live block
Content(hp, b) == SubSeq(hp[b].data, 1, hp[b].length)

\* ----------------------------------------------------------- core functions
ds_length(hp, str)    == IF str # NULL THEN hp[str].length ELSE 0
ds_refcount(hp, str)  == IF str # NULL THEN hp[str].refcount ELSE 0
ds_is_shared(hp, str) == str # NULL /\ hp[str].refcount > 1
ds_is_empty(hp, str)  == str = NULL \/ hp[str].length = 0

\* ds_retain: refcount++ (the heap after the call; the handle returned is str)
ds_retain_noinc(hp, str) ==
  IF str # NULL THEN [hp EXCEPT ![str].retains = @ + 1] ELSE hp

ds_retain(hp, str) ==
  IF str # NULL
    THEN [hp EXCEPT ![str].refcount = @ + 1, ![str].retains = @ + 1]
    ELSE hp

\* ds_release: refcount--, free at zero (the caller's variable is set to NULL
\* by the action)
ds_release_early(hp, str) ==
  IF str # NULL
    THEN LET h1 == [hp EXCEPT ![str].refcount = @ - 1, ![str].releases = @ + 1]
         IN  IF h1[str].refcount <= 1 THEN ds_dealloc(h1, str) ELSE h1
    ELSE hp

ds_release(hp, str) ==
  IF str # NULL
    THEN LET h1 == [hp EXCEPT ![str].refcount = @ - 1, ![str].releases = @ + 1]
         IN  IF h1[str].refcount = 0 THEN ds_dealloc(h1, str) ELSE h1
    ELSE hp

\* ds_create_length(text, length) where src is the memory readable at text and
\* junk is what the bytes past the end of src happen to hold
ds_create_length(hp, b, src, length, junk) ==
  LET h1 == ds_alloc(hp, b, length)
      bytes == [i \in 1..length |->
                  IF i <= Len(src) THEN src[i] ELSE junk[i - Len(src)]]
  IN  IF length > 0
        THEN [h1 EXCEPT ![b].data = MemWrite(@, 0, bytes)]
        ELSE h1

\* ds_new(text): strlen, then ds_create_length
ds_new(hp, b, text) ==
  ds_create_length(hp, b, text \o <<NUL>>, strlen(text \o <<NUL>>), <<>>)

\* ------------------------------------------------------------ UTF-8 encoder
\* bitwise operators on naturals, bit by bit
RECURSIVE BitAnd(_, _)
BitAnd(x, y) ==
  IF x = 0 \/ y = 0 THEN 0
  ELSE (IF x % 2 = 1 /\ y % 2 = 1 THEN 1 ELSE 0) + 2 * BitAnd(x \div 2, y \div 2)

RECURSIVE BitOr(_, _)
BitOr(x, y) ==
  IF x = 0 THEN y
  ELSE IF y = 0 THEN x
  ELSE (IF x % 2 = 1 \/ y % 2 = 1 THEN 1 ELSE 0) + 2 * BitOr(x \div 2, y \div 2)

Shr(x, n) == x \div (2 ^ n)

Shl(x, n) == x * (2 ^ n)

\* the encoder with the range tests off by one
ds_encode_utf8_offbyone(codepoint) ==
  IF codepoint < 127 THEN <<codepoint>>
  ELSE IF codepoint < 2047 THEN
    <<BitOr(192, Shr(codepoint, 6)), BitOr(128, BitAnd(codepoint, 63))>>
  ELSE IF codepoint < 65535 THEN
    <<BitOr(224, Shr(codepoint, 12)),
      BitOr(128, BitAnd(Shr(codepoint, 6), 63)),
      BitOr(128, BitAnd(codepoint, 63))>>
  ELSE IF codepoint < 1114111 THEN
    <<BitOr(240, Shr(codepoint, 18)),
      BitOr(128, BitAnd(Shr(codepoint, 12), 63)),
      BitOr(128, BitAnd(Shr(codepoint, 6), 63)),
      BitOr(128, BitAnd(codepoint, 63))>>
  ELSE <<239, 191, 189>>

\* ds_encode_utf8(codepoint, buffer): the bytes written (the count is their number)
ds_encode_utf8(codepoint) ==
  IF codepoint <= 127 THEN <<codepoint>>
  ELSE IF codepoint <= 2047 THEN
    <<BitOr(192, Shr(codepoint, 6)), BitOr(128, BitAnd(codepoint, 63))>>
  ELSE IF codepoint <= 65535 THEN
    <<BitOr(224, Shr(codepoint, 12)),
      BitOr(128, BitAnd(Shr(codepoint, 6), 63)),
      BitOr(128, BitAnd(codepoint, 63))>>
  ELSE IF codepoint <= 1114111 THEN
    <<BitOr(240, Shr(codepoint, 18)),
      BitOr(128, BitAnd(Shr(codepoint, 12), 63)),
      BitOr(128, BitAnd(Shr(codepoint, 6), 63)),
      BitOr(128, BitAnd(codepoint, 63))>>
  ELSE <<239, 191, 189>>

\* ------------------------------------------------------ string operations
\* Every operation returns [heap |-> the heap after the call, ret |-> the
\* handle returned]; b is the block DS_MALLOC hands out if the call allocates.

\* ds_append(str, text), text a C string (non-NULL)
ds_append_noretain(hp, b, str, text) ==
  IF str = NULL THEN [heap |-> ds_new(hp, b, text), ret |-> b]
  ELSE IF Len(text) = 0 THEN [heap |-> hp, ret |-> str]
  ELSE LET new_length == hp[str].length + Len(text)
           h1 == ds_alloc(hp, b, new_length)
           h2 == [h1 EXCEPT ![b].data =
                    MemWrite(@, 0, MemRead(hp[str].data, 0, hp[str].length))]
           h3 == [h2 EXCEPT ![b].data = MemWrite(@, hp[str].length, text)]
       IN  [heap |-> h3, ret |-> b]

ds_append(hp, b, str, text) ==
  IF str = NULL THEN [heap |-> ds_new(hp, b, text), ret |-> b]
  ELSE IF Len(text) = 0 THEN [heap |-> ds_retain(hp, str), ret |-> str]
  ELSE LET new_length == hp[str].length + Len(text)
           h1 == ds_alloc(hp, b, new_length)
           h2 == [h1 EXCEPT ![b].data =
                    MemWrite(@, 0, MemRead(hp[str].data, 0, hp[str].length))]
           h3 == [h2 EXCEPT ![b].data = MemWrite(@, hp[str].length, text)]
       IN  [heap |-> h3, ret |-> b]

\* ds_append_char(str, codepoint): encode into temp_str, terminate, ds_append
ds_append_char(hp, b, str, codepoint) ==
  LET utf8_buffer == ds_encode_utf8(codepoint)
      temp_str    == utf8_buffer \o <<NUL>>
  IN  ds_append(hp, b, str, SubSeq(temp_str, 1, strlen(temp_str)))

\* ds_prepend(str, text)
ds_prepend(hp, b, str, text) ==
  IF str = NULL THEN [heap |-> ds_new(hp, b, text), ret |-> b]
  ELSE IF Len(text) = 0 THEN [heap |-> ds_retain(hp, str), ret |-> str]
  ELSE LET new_length == hp[str].length + Len(text)
           h1 == ds_alloc(hp, b, new_length)
           h2 == [h1 EXCEPT ![b].data = MemWrite(@, 0, text)]
           h3 == [h2 EXCEPT ![b].data =
                    MemWrite(@, Len(text), MemRead(hp[str].data, 0, hp[str].length))]
       IN  [heap |-> h3, ret |-> b]

\* ds_insert(str, index, text)
ds_insert(hp, b, str, index, text) ==
  IF str = NULL THEN [heap |-> hp, ret |-> NULL]
  ELSE IF index > hp[str].length THEN [heap |-> ds_retain(hp, str), ret |-> str]
  ELSE IF Len(text) = 0 THEN [heap |-> ds_retain(hp, str), ret |-> str]
  ELSE LET str_len == hp[str].length
           new_length == str_len + Len(text)
           h1 == ds_alloc(hp, b, new_length)
           h2 == [h1 EXCEPT ![b].data =
                    MemWrite(@, 0, MemRead(hp[str].data, 0, index))]
           h3 == [h2 EXCEPT ![b].data = MemWrite(@, index, text)]
           h4 == [h3 EXCEPT ![b].data =
                    MemWrite(@, index + Len(text),
                             MemRead(hp[str].data, index, str_len - index))]
       IN  [heap |-> h4, ret |-> b]

\* size_t arithmetic is modulo 2^SizeBits
SizeMod == 2 ^ SizeBits

\* the length ds_substring passes on to ds_create_length
SubstringLen_noclamp(str_len, start, len) == len

SubstringLen(str_len, start, len) ==
  IF (start + len) % SizeMod > str_len THEN str_len - start ELSE len

\* ds_substring(str, start, len); junk as in ds_create_length
ds_substring(hp, b, str, start, len, junk) ==
  IF str = NULL \/ start >= hp[str].length
    THEN [heap |-> ds_new(hp, b, <<>>), ret |-> b]
    ELSE LET str_len == hp[str].length
             n == SubstringLen(str_len, start, len)
             src == SubSeq(hp[str].data, start + 1, Len(hp[str].data))
         IN  [heap |-> ds_create_length(hp, b, src, n, junk), ret |-> b]

\* strcmp on two terminated arrays: the difference of the first bytes that
\* differ (as unsigned char), 0 if none differs before a terminator
RECURSIVE strcmp_from(_, _, _)
strcmp_from(a, b, i) ==
  IF a[i] # b[i] THEN a[i] - b[i]
  ELSE IF a[i] = NUL THEN 0
  ELSE strcmp_from(a, b, i + 1)

strcmp(a, b) == strcmp_from(a, b, 1)

\* ds_compare(a, b)
ds_compare(hp, a, b) ==
  IF a = b THEN 0
  ELSE LET a_str == IF a # NULL THEN hp[a].data ELSE <<NUL>>
           b_str == IF b # NULL THEN hp[b].data ELSE <<NUL>>
       IN  strcmp(a_str, b_str)

\* ---------------------------------------------------------------- actions
\* The caller stores a returned handle in its first variable that holds NULL.
HasDest == \E i \in Handles : hv[i] = NULL
Dest    == CHOOSE i \in Handles :
             hv[i] = NULL /\ \A j \in Handles : hv[j] = NULL => i <= j

\* the block malloc returns next (NULL when the model's heap is used up)
NewBlock == IF HasFresh(heap) THEN Fresh(heap) ELSE NULL

\* a record of one API call
\* (asserted: the call invoked DS_ASSERT instead of returning)
Call(op, arg, res, text, index, len) ==
  [op |-> op, arg |-> arg, res |-> res, text |-> text, index |-> index, len |-> len,
   asserted |-> FALSE]

NoBuilder == [data |-> NULL, capacity |-> 0]

\* the iterator ds_codepoints(NULL) returns: it views the empty string ""
NoIter == [data |-> NULL, pos |-> 0, end |-> 0]

\* the threads of a run; a thread between calls that holds no handle
Threads   == {1, 2}
NoThreads == [t \in Threads |-> [pc |-> "idle", tmp |-> 0, held |-> 0, calls |-> 0]]

EmptyHeap == [b \in Blocks |-> UnusedBlock]

\* a retain the model still counts
CanRetain(str) == IF str = NULL THEN TRUE ELSE heap[str].retains < MaxRetains

\* x = ds_new(text)
DoNew(text) ==
  /\ HasFresh(heap) /\ HasDest
  /\ heap' = ds_new(heap, NewBlock, text)
  /\ hv' = [hv EXCEPT ![Dest] = NewBlock]
  /\ last' = Call("ds_new", NULL, NewBlock, text, 0, 0)
  /\ UNCHANGED <<sb, oob, iter, thr>>

\* x = ds_create_length(buf, length): buf is an array of Len(buf) bytes followed
\* by a terminator; reading more than that many bytes reads whatever is there
DoCreateLength(buf, length) ==
  /\ HasFresh(heap) /\ HasDest
  /\ LET src  == buf \o <<NUL>>
         over == IF length > Len(src) THEN length - Len(src) ELSE 0
     IN  /\ \E junk \in [1..over -> Byte] :
               heap' = ds_create_length(heap, NewBlock, src, length, junk)
         /\ oob' = (oob \/ over > 0)
  /\ hv' = [hv EXCEPT ![Dest] = NewBlock]
  /\ last' = Call("ds_create_length", NULL, NewBlock, buf, 0, length)
  /\ UNCHANGED <<sb, iter, thr>>

\* x = ds_retain(hv[i])
DoRetain(i) ==
  /\ HasDest /\ CanRetain(hv[i])
  /\ heap' = ds_retain(heap, hv[i])
  /\ hv' = [hv EXCEPT ![Dest] = hv[i]]
  /\ last' = Call("ds_retain", hv[i], hv[i], <<>>, i, 0)
  /\ UNCHANGED <<sb, oob, iter, thr>>

\* ds_release(&hv[i])
\* the variable points to memory that was freed: ds_release then reads and
\* writes freed memory
Dangling(hp, str) == IF str = NULL THEN FALSE ELSE hp[str].st # "live"

\* what ds_release can leave behind: on freed memory it may find the old
\* metadata still there and act on it, or do no visible harm
ReleaseOutcomes(hp, str) ==
  IF Dangling(hp, str) THEN {ds_release(hp, str), hp} ELSE {ds_release(hp, str)}

DoRelease(i) ==
  /\ heap' \in ReleaseOutcomes(heap, hv[i])
  /\ hv' = [hv EXCEPT ![i] = NULL]
  /\ last' = Call("ds_release", hv[i], NULL, <<>>, i, 0)
  /\ oob' = (oob \/ Dangling(heap, hv[i]))
  /\ UNCHANGED <<sb, iter, thr>>

\* the common shape of x = op(hv[i], ...): r is the operation's result
StringOp(op, i, r, text, index, len) ==
  /\ HasDest /\ HasFresh(heap)
  /\ IF r.ret = NULL THEN TRUE
     ELSE IF heap[r.ret].st = "live" THEN CanRetain(r.ret)
     ELSE TRUE
  /\ heap' = r.heap
  /\ hv' = [hv EXCEPT ![Dest] = r.ret]
  /\ last' = Call(op, hv[i], r.ret, text, index, len)
  /\ UNCHANGED <<sb, oob, iter, thr>>

DoAppend(i, text) ==
  StringOp("ds_append", i, ds_append(heap, NewBlock, hv[i], text), text, 0, 0)

DoAppendChar(i, codepoint) ==
  StringOp("ds_append_char", i, ds_append_char(heap, NewBlock, hv[i], codepoint),
           <<>>, codepoint, 0)

DoPrepend(i, text) ==
  StringOp("ds_prepend", i, ds_prepend(heap, NewBlock, hv[i], text), text, 0, 0)

DoInsert(i, index, text) ==
  StringOp("ds_insert", i, ds_insert(heap, NewBlock, hv[i], index, text),
           text, index, 0)

\* the bytes ds_substring's copy reads past the end of str's block
SubstringOver(hp, str, start, len) ==
  IF str = NULL THEN 0
  ELSE IF start >= hp[str].length THEN 0
  ELSE LET n == SubstringLen(hp[str].length, start, len)
           avail == Len(hp[str].data) - start
       IN  IF n > avail THEN n - avail ELSE 0

DoSubstring(i, start, len) ==
  /\ HasDest /\ HasFresh(heap)
  /\ LET over == SubstringOver(heap, hv[i], start, len)
     IN  /\ \E junk \in [1..over -> Byte] :
               LET r == ds_substring(heap, NewBlock, hv[i], start, len, junk)
               IN  /\ heap' = r.heap
                   /\ hv' = [hv EXCEPT ![Dest] = r.ret]
                   /\ last' = Call("ds_substring", hv[i], r.ret, <<>>, start, len)
         /\ oob' = (oob \/ over > 0)
  /\ UNCHANGED <<sb, iter, thr>>

\* ------------------------------------------------- the reference-count machine
\* The caller creates strings and retains and releases handles, in any order.
RefTexts == {<<97>>}

InitRef ==
  /\ heap = EmptyHeap
  /\ hv = [i \in Handles |-> NULL]
  /\ sb = NoBuilder
  /\ last = Call("init", NULL, NULL, <<>>, 0, 0)
  /\ oob = FALSE
  /\ iter = NoIter
  /\ thr = NoThreads

NextRef ==
  \/ \E text \in RefTexts : DoNew(text)
  \/ \E buf \in RefTexts : DoCreateLength(buf, Len(buf))
  \/ \E i \in Handles : DoRetain(i)
  \/ \E i \in Handles : DoRelease(i)

SpecRef == InitRef /\ [][NextRef]_vars

\* ------------------------------------------------------ one call on a string
\* The caller holds a string s of any content (made by ds_create_length from a
\* buffer of that content), possibly shared by a second handle, and makes one
\* call.
Codepoints == {0, 97, 233, 55296, 1114112}
Indexes    == 0..(MaxLen + 2)

SourceHeap(buf, shared) ==
  LET h1 == ds_create_length(EmptyHeap, 1, buf \o <<NUL>>, Len(buf), <<>>)
  IN  IF shared THEN ds_retain(h1, 1) ELSE h1

InitOps ==
  /\ \E buf \in Buf, shared \in BOOLEAN :
       /\ heap = SourceHeap(buf, shared)
       /\ hv = [i \in Handles |-> IF i = 1 \/ (i = 2 /\ shared) THEN 1 ELSE NULL]
  /\ sb = NoBuilder
  /\ last = Call("init", NULL, NULL, <<>>, 0, 0)
  /\ oob = FALSE
  /\ iter = NoIter
  /\ thr = NoThreads

\* the caller has made no call yet
NoCallYet == last.op = "init"

NextOps ==
  \/ \E text \in CStr : NoCallYet /\ DoNew(text)
  \/ \E buf \in Buf, length \in 0..(MaxLen + 1) : NoCallYet /\ DoCreateLength(buf, length)
  \/ \E i \in Handles : NoCallYet /\ DoRetain(i)
  \/ \E i \in Handles : NoCallYet /\ DoRelease(i)
  \/ \E i \in Handles, text \in CStr : NoCallYet /\ DoAppend(i, text)
  \/ \E i \in Handles, codepoint \in Codepoints : NoCallYet /\ DoAppendChar(i, codepoint)
  \/ \E i \in Handles, text \in CStr : NoCallYet /\ DoPrepend(i, text)
  \/ \E i \in Handles, index \in Indexes, text \in CStr :
       NoCallYet /\ DoInsert(i, index, text)
  \/ \E i \in Handles, start \in Indexes, len \in Indexes :
       NoCallYet /\ DoSubstring(i, start, len)

SpecOps == InitOps /\ [][NextOps]_vars

\* ---------------------------------------------------------- StringBuilder
\* DS_REALLOC(block, sizeof(ds_internal) + size): the block keeps its metadata
\* and the first min(old, new) data bytes; the allocator either resizes it in
\* place or (mv, and a block is to be had) moves it and frees the old one.
Resized(data, size) ==
  [i \in 1..size |-> IF i <= Len(data) THEN data[i] ELSE Uninit]

realloc_lossy(hp, blk, size, mv) ==
  IF mv /\ HasFresh(hp)
    THEN LET nb == Fresh(hp)
             h1 == [hp EXCEPT ![nb] = [hp[blk] EXCEPT
                      !.data = [i \in 1..size |-> Uninit], !.frees = 0]]
         IN  [heap |-> ds_dealloc(h1, blk), ptr |-> nb]
    ELSE [heap |-> [hp EXCEPT ![blk].data = Resized(@, size)], ptr |-> blk]

realloc(hp, blk, size, mv) ==
  IF mv /\ HasFresh(hp)
    THEN LET nb == Fresh(hp)
             h1 == [hp EXCEPT ![nb] = [hp[blk] EXCEPT !.data = Resized(@, size),
                                                     !.frees = 0]]
         IN  [heap |-> ds_dealloc(h1, blk), ptr |-> nb]
    ELSE [heap |-> [hp EXCEPT ![blk].data = Resized(@, size)], ptr |-> blk]

\* the doubling loop of ds_sb_ensure_capacity
RECURSIVE GrowTo(_, _)
GrowTo(new_capacity, required_capacity) ==
  IF new_capacity < required_capacity
    THEN GrowTo(new_capacity * DS_SB_GROWTH_FACTOR, required_capacity)
    ELSE new_capacity

\* ds_sb_ensure_capacity(sb, required_capacity): [heap, sb, ret]
ds_sb_ensure_capacity(hp, b, required_capacity, mv) ==
  IF b.capacity >= required_capacity THEN [heap |-> hp, sb |-> b, ret |-> 1]
  ELSE LET start == IF b.capacity = 0 THEN DS_SB_INITIAL_CAPACITY ELSE b.capacity
           new_capacity == GrowTo(start, required_capacity)
           r == realloc(hp, b.data, new_capacity, mv)
       IN  [heap |-> r.heap,
            sb |-> [data |-> r.ptr, capacity |-> new_capacity],
            ret |-> 1]

\* ds_sb_ensure_unique(sb): [heap, sb, ret]
ds_sb_ensure_unique_nocopy(hp, b) ==
  IF b.data = NULL THEN [heap |-> hp, sb |-> b, ret |-> 0]
  ELSE [heap |-> hp, sb |-> b, ret |-> 1]

ds_sb_ensure_unique_norelease(hp, b) ==
  IF b.data = NULL THEN [heap |-> hp, sb |-> b, ret |-> 0]
  ELSE IF hp[b.data].refcount <= 1 THEN [heap |-> hp, sb |-> b, ret |-> 1]
  ELSE LET current_length == hp[b.data].length
           new_str == Fresh(hp)
           h1 == ds_alloc(hp, new_str, current_length)
           h2 == [h1 EXCEPT ![new_str].data =
                    MemWrite(@, 0, MemRead(hp[b.data].data, 0, current_length))]
       IN  [heap |-> h2,
            sb |-> [data |-> new_str, capacity |-> current_length + 1],
            ret |-> 1]

ds_sb_ensure_unique(hp, b) ==
  IF b.data = NULL THEN [heap |-> hp, sb |-> b, ret |-> 0]
  ELSE IF hp[b.data].refcount <= 1 THEN [heap |-> hp, sb |-> b, ret |-> 1]
  ELSE LET current_length == hp[b.data].length
           new_str == Fresh(hp)
           h1 == ds_alloc(hp, new_str, current_length)
           h2 == [h1 EXCEPT ![new_str].data =
                    MemWrite(@, 0, MemRead(hp[b.data].data, 0, current_length))]
           h3 == ds_release(h2, b.data)
       IN  [heap |-> h3,
            sb |-> [data |-> new_str, capacity |-> current_length + 1],
            ret |-> 1]

\* ds_builder_create_with_capacity(capacity): [heap, sb]
ds_builder_create_with_capacity(hp, blk, capacity) ==
  LET cap == IF capacity = 0 THEN DS_SB_INITIAL_CAPACITY ELSE capacity
  IN  [heap |-> [hp EXCEPT ![blk] = [RawBlock(cap) EXCEPT
                    !.refcount = 1, !.length = 0, !.data[1] = NUL]],
       sb |-> [data |-> blk, capacity |-> cap]]

\* A builder call returns [heap, sb, ret, oob]: oob says that it wrote outside
\* the builder's allocation.
Unchanged(hp, b, ret) == [heap |-> hp, sb |-> b, ret |-> ret, oob |-> FALSE]

\* the tail shared by ds_builder_append and ds_builder_append_char: copy the
\* bytes to the end, add to the length, terminate
AppendBytes_noterm(c, bytes) ==
  LET d == c.sb.data
      len == c.heap[d].length
      h1 == [c.heap EXCEPT ![d].data = MemWrite(@, len, bytes)]
      h2 == [h1 EXCEPT ![d].length = len + Len(bytes)]
  IN  [heap |-> h2, sb |-> c.sb, ret |-> 1,
       oob |-> len + Len(bytes) > Len(c.heap[d].data)]

AppendBytes(c, bytes) ==
  LET d == c.sb.data
      len == c.heap[d].length
      new_len == len + Len(bytes)
      h1 == [c.heap EXCEPT ![d].data = MemWrite(@, len, bytes)]
      h2 == [h1 EXCEPT ![d].length = new_len]
      h3 == [h2 EXCEPT ![d].data = MemWrite(@, new_len, <<NUL>>)]
  IN  [heap |-> h3, sb |-> c.sb, ret |-> 1,
       oob |-> new_len + 1 > Len(c.heap[d].data)]

\* ds_builder_append(sb, text)
ds_builder_append(hp, b, text, mv) ==
  IF b.data = NULL THEN Unchanged(hp, b, 0)
  ELSE IF Len(text) = 0 THEN Unchanged(hp, b, 1)
  ELSE LET u == ds_sb_ensure_unique(hp, b)
           c == ds_sb_ensure_capacity(u.heap, u.sb,
                  u.heap[u.sb.data].length + Len(text) + 1, mv)
       IN  AppendBytes(c, text)

\* ds_builder_append_char(sb, codepoint)
ds_builder_append_char(hp, b, codepoint, mv) ==
  IF b.data = NULL THEN Unchanged(hp, b, 0)
  ELSE LET utf8_buffer == ds_encode_utf8(codepoint)
           u == ds_sb_ensure_unique(hp, b)
           c == ds_sb_ensure_capacity(u.heap, u.sb,
                  u.heap[u.sb.data].length + Len(utf8_buffer) + 1, mv)
       IN  AppendBytes(c, utf8_buffer)

\* ds_builder_append_string(sb, str)
ds_builder_append_string(hp, b, str, mv) ==
  IF str = NULL THEN Unchanged(hp, b, 0)
  ELSE LET u == ds_sb_ensure_unique(hp, b)
       IN  IF u.ret = 0 THEN Unchanged(hp, b, 0)
           ELSE LET c == ds_sb_ensure_capacity(u.heap, u.sb,
                           u.heap[u.sb.data].length + u.heap[str].length + 1, mv)
                IN  AppendBytes(c, MemRead(c.heap[str].data, 0, c.heap[str].length))

ds_builder_insert_unique_first(hp, b, index, text, mv) ==
  IF b.data = NULL THEN Unchanged(hp, b, 0)
  ELSE LET u == ds_sb_ensure_unique(hp, b)
       IN  [heap |-> u.heap, sb |-> u.sb, ret |-> 0, oob |-> FALSE]

ds_builder_insert_atend(hp, b, index, text, mv) ==
  IF b.data = NULL THEN Unchanged(hp, b, 0)
  ELSE IF index > hp[b.data].length THEN Unchanged(hp, b, 0)
  ELSE IF Len(text) = 0 THEN Unchanged(hp, b, 1)
  ELSE ds_builder_append(hp, b, text, mv)

\* ds_builder_insert(sb, index, text); meta is read before ds_sb_ensure_unique
\* and still points to the block the builder had on entry
ds_builder_insert(hp, b, index, text, mv) ==
  IF b.data = NULL THEN Unchanged(hp, b, 0)
  ELSE IF index > hp[b.data].length THEN Unchanged(hp, b, 0)
  ELSE IF Len(text) = 0 THEN Unchanged(hp, b, 1)
  ELSE LET meta == b.data
           u == ds_sb_ensure_unique(hp, b)
           c == ds_sb_ensure_capacity(u.heap, u.sb,
                  u.heap[meta].length + Len(text) + 1, mv)
           d == c.sb.data
           len == c.heap[d].length
           moved == MemRead(c.heap[d].data, index, len - index + 1)
           h1 == [c.heap EXCEPT ![d].data = MemWrite(@, index + Len(text), moved)]
           h2 == [h1 EXCEPT ![d].data = MemWrite(@, index, text)]
           h3 == [h2 EXCEPT ![d].length = len + Len(text)]
       IN  [heap |-> h3, sb |-> c.sb, ret |-> 1,
            oob |-> len + Len(text) + 1 > Len(c.heap[d].data)]

ds_builder_clear_noterm(hp, b) ==
  IF b.data = NULL THEN Unchanged(hp, b, 0)
  ELSE LET u == ds_sb_ensure_unique(hp, b)
       IN  [heap |-> [u.heap EXCEPT ![u.sb.data].length = 0],
            sb |-> u.sb, ret |-> 1, oob |-> FALSE]

\* ds_builder_clear(sb); it returns nothing: ret is 1 when it cleared
ds_builder_clear(hp, b) ==
  IF b.data = NULL THEN Unchanged(hp, b, 0)
  ELSE LET u == ds_sb_ensure_unique(hp, b)
           d == u.sb.data
           h1 == [u.heap EXCEPT ![d].length = 0]
           h2 == [h1 EXCEPT ![d].data = MemWrite(@, 0, <<NUL>>)]
       IN  [heap |-> h2, sb |-> u.sb, ret |-> 1, oob |-> Len(u.heap[d].data) < 1]

\* the builder's bytes, as ds_builder_cstr and ds_builder_length show them
BuilderContent == Content(heap, sb.data)

\* ----------------------------------------------------- the builder machine
MaxBuilderLen == 2   \* longest content the builder is driven to

\* a copy-on-write needs a block
CanCopy == IF sb.data = NULL THEN TRUE
           ELSE IF heap[sb.data].refcount > 1 THEN HasFresh(heap) ELSE TRUE

\* the common shape of a builder call with result r
BuilderOp(op, r, text, index) ==
  /\ CanCopy
  /\ IF r.sb.data = NULL THEN TRUE ELSE r.heap[r.sb.data].length <= MaxBuilderLen
  /\ heap' = r.heap
  /\ sb' = r.sb
  /\ oob' = (oob \/ r.oob)
  /\ last' = Call(op, sb.data, r.ret, text, index, 0)
  /\ UNCHANGED <<hv, iter, thr>>

\* sb = ds_builder_create_with_capacity(capacity)
DoBuilderCreate(capacity) ==
  /\ sb = NoBuilder /\ last.op = "init" /\ HasFresh(heap)
  /\ LET r == ds_builder_create_with_capacity(heap, NewBlock, capacity)
     IN  heap' = r.heap /\ sb' = r.sb
  /\ last' = Call("ds_builder_create_with_capacity", NULL, NewBlock, <<>>, capacity, 0)
  /\ UNCHANGED <<hv, oob, iter, thr>>

\* h = ds_retain(sb.data): the caller takes its one handle to the builder's
\* block, in its first variable
DoBuilderShare ==
  /\ sb.data # NULL /\ hv[1] = NULL /\ CanRetain(sb.data)
  /\ heap' = ds_retain(heap, sb.data)
  /\ hv' = [hv EXCEPT ![1] = sb.data]
  /\ last' = Call("ds_retain", sb.data, sb.data, <<>>, 0, 0)
  /\ UNCHANGED <<sb, oob, iter, thr>>

DoBuilderAppend(text, mv) ==
  BuilderOp("ds_builder_append", ds_builder_append(heap, sb, text, mv), text, 0)

DoBuilderAppendChar(codepoint, mv) ==
  BuilderOp("ds_builder_append_char",
            ds_builder_append_char(heap, sb, codepoint, mv), <<>>, codepoint)

DoBuilderAppendString(i, mv) ==
  BuilderOp("ds_builder_append_string",
            ds_builder_append_string(heap, sb, hv[i], mv), <<>>, i)

DoBuilderInsert(index, text, mv) ==
  BuilderOp("ds_builder_insert",
            ds_builder_insert(heap, sb, index, text, mv), text, index)

DoBuilderClear ==
  BuilderOp("ds_builder_clear", ds_builder_clear(heap, sb), <<>>, 0)

BuilderTexts      == {<<>>, <<97>>}
BuilderCodepoints == {0, 233}
BuilderCapacities == {0, 1}

NextSB ==
  \/ \E capacity \in BuilderCapacities : DoBuilderCreate(capacity)
  \/ DoBuilderShare
  \/ \E i \in Handles : sb.data # NULL /\ DoRelease(i)
  \/ \E text \in BuilderTexts, mv \in BOOLEAN : DoBuilderAppend(text, mv)
  \/ \E codepoint \in BuilderCodepoints, mv \in BOOLEAN :
       DoBuilderAppendChar(codepoint, mv)
  \/ \E i \in Handles, mv \in BOOLEAN : DoBuilderAppendString(i, mv)
  \/ \E index \in 0..(MaxBuilderLen + 1), text \in BuilderTexts, mv \in BOOLEAN :
       DoBuilderInsert(index, text, mv)
  \/ DoBuilderClear

SpecSB == InitRef /\ [][NextSB]_vars

\* ==================================================================== claims
\* the operations that take a string and return a string
StringOps == {"ds_append", "ds_append_char", "ds_prepend", "ds_insert", "ds_substring"}

\* the value the sign of x
Sign(x) == IF x < 0 THEN -1 ELSE IF x > 0 THEN 1 ELSE 0

\* byte-wise lexicographic order of two byte sequences over their full lengths
RECURSIVE LexCmp(_, _)
LexCmp(x, y) ==
  IF Len(x) = 0 /\ Len(y) = 0 THEN 0
  ELSE IF Len(x) = 0 THEN -1
  ELSE IF Len(y) = 0 THEN 1
  ELSE IF Head(x) < Head(y) THEN -1
  ELSE IF Head(x) > Head(y) THEN 1
  ELSE LexCmp(Tail(x), Tail(y))

\* C1 (SpecRef): for every string a handle still points to, after n ds_retain
\* calls and m <= n ds_release calls on it, ds_refcount is n + 1 - m, and
\* ds_is_shared is true exactly when that value is greater than 1.
C1_RefcountIsRetainsMinusReleases ==
  \A i \in Handles :
    hv[i] # NULL =>
      LET s == hv[i]
          n == heap[s].retains
          m == heap[s].releases
      IN  /\ m <= n
          /\ ds_refcount(heap, s) = n + 1 - m
          /\ ds_is_shared(heap, s) <=> (n + 1 - m > 1)

\* C1 witness: a string retained twice and released once: refcount 2, shared.
C1_Witness ==
  \E i \in Handles :
    /\ hv[i] # NULL
    /\ heap[hv[i]].retains = 2 /\ heap[hv[i]].releases = 1
    /\ ds_refcount(heap, hv[i]) = 2
    /\ last.op = "ds_release"

\* C2 (SpecRef): a block is freed exactly once, by the release that takes its
\* refcount from 1 to 0, and never while a handle to it remains; ds_release
\* sets the caller's variable to NULL, and a release of a NULL variable changes
\* no block.
C2_FreedOnceAtZero ==
  /\ [](\A b \in Blocks :
          /\ heap[b].frees <= 1
          /\ heap[b].st = "freed" <=> heap[b].frees = 1
          /\ heap[b].st = "live" => heap[b].refcount >= 1)
  /\ [](\A i \in Handles : hv[i] # NULL => heap[hv[i]].st = "live")
  /\ [][\A b \in Blocks :
          heap'[b].frees # heap[b].frees =>
            /\ heap[b].refcount = 1 /\ heap'[b].refcount = 0
            /\ last'.op = "ds_release" /\ last'.arg = b]_vars
  /\ [][last'.op = "ds_release" =>
          /\ hv'[last'.index] = NULL
          /\ hv[last'.index] = NULL => heap' = heap]_vars

\* C2 witness: a string was retained and released down to zero and freed, and
\* the variable released last was released once more.
C2_Witness ==
  /\ last.op = "ds_release" /\ last.arg = NULL
  /\ \E b \in Blocks :
       heap[b].st = "freed" /\ heap[b].frees = 1 /\ heap[b].retains >= 1

\* C3 (SpecOps): ds_append, ds_append_char, ds_prepend, ds_insert and
\* ds_substring leave the bytes and the length of their argument s as they
\* were; when the call returns s itself its refcount is one higher and no block
\* was allocated, otherwise its refcount is unchanged and the result is a block
\* allocated by the call.
C3_ArgumentUnchanged ==
  [][(last'.op \in StringOps /\ last'.arg # NULL) =>
       LET s == last'.arg
           r == last'.res
       IN  /\ heap'[s].st = "live"
           /\ heap'[s].data = heap[s].data
           /\ heap'[s].length = heap[s].length
           /\ IF r = s
                THEN /\ heap'[s].refcount = heap[s].refcount + 1
                     /\ \A b \in Blocks : heap'[b].st = heap[b].st
                ELSE /\ heap'[s].refcount = heap[s].refcount
                     /\ r # NULL
                     /\ heap[r].st = "unused" /\ heap'[r].st = "live"]_vars

\* C3 witness: appending the empty text to a shared string returned the string
\* itself, now with three references.
C3_Witness ==
  /\ last.op = "ds_append" /\ last.text = <<>>
  /\ last.arg # NULL /\ last.res = last.arg
  /\ heap[last.arg].refcount = 3

\* C4 (SpecOps), as claimed: ds_insert(s, i, t) with t non-empty returns a new
\* refcount-1 string holding s[0..j) t s[j..L), j = min(i, L), for every index
\* i, also i > L.
C4_InsertClampsIndex ==
  (last.op = "ds_insert" /\ last.arg # NULL /\ Len(last.text) > 0) =>
    LET s == last.arg
        r == last.res
        L == heap[s].length
        j == Min(last.index, L)
        c == Content(heap, s)
    IN  /\ r # NULL /\ r # s
        /\ heap[r].refcount = 1
        /\ heap[r].length = L + Len(last.text)
        /\ Content(heap, r) = SubSeq(c, 1, j) \o last.text \o SubSeq(c, j + 1, L)

\* C5 (SpecOps): ds_substring(s, start, len), start + len not overflowing,
\* returns a new refcount-1 terminated string holding
\* s[min(start, L) .. min(start + len, L)); with start >= L it is the empty
\* string, not NULL.
C5_SubstringClamps ==
  [][(last'.op = "ds_substring" /\ last'.arg # NULL
      /\ last'.index + last'.len < SizeMod) =>
       LET s == last'.arg
           r == last'.res
           L == heap[s].length
           from == Min(last'.index, L)
           to == Min(last'.index + last'.len, L)
       IN  /\ r # NULL /\ r # s
           /\ heap[r].st = "unused" /\ heap'[r].st = "live"
           /\ heap'[r].refcount = 1
           /\ heap'[r].length = to - from
           /\ Content(heap', r) = SubSeq(Content(heap, s), from + 1, to)
           /\ heap'[r].data[heap'[r].length + 1] = NUL
           /\ ~oob']_vars

\* C5 witness: a substring that starts inside s and asks for more bytes than
\* remain got exactly the remaining bytes.
C5_Witness ==
  /\ last.op = "ds_substring" /\ last.arg # NULL
  /\ last.index < heap[last.arg].length
  /\ last.index + last.len > heap[last.arg].length
  /\ heap[last.res].length = heap[last.arg].length - last.index
  /\ heap[last.res].length > 0

\* C6 (SpecOps), as claimed: ds_create_length(text, n) returns a refcount-1
\* string of the first min(n, strlen(text)) bytes of text and reads nothing
\* past text's terminator.
C6_CreateLengthStopsAtTerminator ==
  last.op = "ds_create_length" =>
    LET r == last.res
        m == Min(last.len, strlen(last.text \o <<NUL>>))
    IN  /\ r # NULL
        /\ heap[r].refcount = 1
        /\ heap[r].length = m
        /\ Content(heap, r) = SubSeq(last.text, 1, m)
        /\ ~oob

\* C7 (SpecOps), as claimed: ds_compare(a, b) is 0 exactly when a and b have
\* the same length and bytes; otherwise its sign is that of the byte-wise
\* lexicographic order over the full lengths, and swapping the arguments
\* swaps the sign.
C7_CompareIsBytewise ==
  \A i \in Handles, k \in Handles :
    (hv[i] # NULL /\ hv[k] # NULL) =>
      LET a == hv[i]
          b == hv[k]
      IN  /\ ds_compare(heap, a, b) = 0 <=>
               (heap[a].length = heap[b].length
                /\ Content(heap, a) = Content(heap, b))
          /\ Sign(ds_compare(heap, a, b)) = LexCmp(Content(heap, a), Content(heap, b))
          /\ Sign(ds_compare(heap, a, b)) = - Sign(ds_compare(heap, b, a))

BuilderMutators == {"ds_builder_append", "ds_builder_append_char",
                    "ds_builder_append_string", "ds_builder_insert",
                    "ds_builder_clear"}

\* the step is a builder mutator call on an active builder
MutatorCall == last'.op \in BuilderMutators /\ sb.data # NULL

\* the call of the step gets past its argument checks and early returns
PassesChecks ==
  CASE last'.op = "ds_builder_append"        -> last'.text # <<>>
    [] last'.op = "ds_builder_append_char"   -> TRUE
    [] last'.op = "ds_builder_append_string" -> hv[last'.index] # NULL
    [] last'.op = "ds_builder_insert"        ->
         last'.text # <<>> /\ last'.index <= heap[sb.data].length
    [] last'.op = "ds_builder_clear"         -> TRUE
    [] OTHER                                 -> FALSE

\* C8: while the caller holds a handle h to the builder's block (reference
\* count 2), a builder mutator call leaves the bytes and the length of h's
\* block as they were and does not free it; a call that writes anything
\* writes to a block that was not allocated before the call, and takes h's
\* reference count from 2 to exactly 1.
C8_SharedBlockIsNotWritten ==
  [][(MutatorCall /\ hv[1] = sb.data /\ heap[sb.data].refcount = 2) =>
       LET h == hv[1]
       IN  /\ heap'[h].st = "live"
           /\ heap'[h].data = heap[h].data
           /\ heap'[h].length = heap[h].length
           /\ IF heap' # heap
                THEN /\ sb'.data # h
                     /\ heap[sb'.data].st = "unused"
                     /\ heap'[h].refcount = 1
                     /\ \A b \in Blocks \ {h, sb'.data} :
                          heap'[b].data = heap[b].data
                ELSE heap'[h].refcount = 2 /\ sb' = sb]_vars

\* an append to a builder whose block the caller shared: the caller's block
\* keeps its bytes and the builder has moved to another block
C8_Witness ==
  /\ last.op = "ds_builder_append" /\ last.text # <<>> /\ last.res = 1
  /\ hv[1] # NULL /\ hv[1] = last.arg
  /\ sb.data # hv[1]
  /\ heap[hv[1]].st = "live" /\ heap[hv[1]].refcount = 1
  /\ heap[sb.data].length > heap[hv[1]].length

C10_BuilderBufferInvariant ==
  sb.data # NULL =>
    /\ heap[sb.data].st = "live"
    /\ heap[sb.data].length + 1 <= sb.capacity
    /\ sb.capacity = Len(heap[sb.data].data)
    /\ heap[sb.data].data[heap[sb.data].length + 1] = NUL
    /\ ~oob

\* a builder whose buffer was grown to exactly its content and terminator
C10_Witness ==
  /\ sb.data # NULL
  /\ last.op \in {"ds_builder_append", "ds_builder_append_char", "ds_builder_insert"}
  /\ last.res = 1
  /\ heap[sb.data].length >= 1
  /\ heap[sb.data].length + 1 = sb.capacity

\* ------------------------------------------------------- growth of a builder
\* A builder is created with a small capacity and text is appended to it until
\* its buffer has grown, as in test_stringbuilder_step_by_step.
MaxGrowLen == 5   \* longest content the growing builder is driven to

GrowCapacities == {1, 2, 4}
GrowTexts      == {<<97>>, <<98>>, <<65, 66>>, <<67, 68>>}

DoGrowAppend(text, mv) ==
  /\ sb.data # NULL
  /\ heap[sb.data].length + Len(text) <= MaxGrowLen
  /\ LET r == ds_builder_append(heap, sb, text, mv)
     IN  /\ heap' = r.heap
         /\ sb' = r.sb
         /\ oob' = (oob \/ r.oob)
         /\ last' = Call("ds_builder_append", sb.data, r.ret, text, 0, 0)
  /\ UNCHANGED <<hv, iter, thr>>

NextGrow ==
  \/ \E capacity \in GrowCapacities : DoBuilderCreate(capacity)
  \/ \E text \in GrowTexts, mv \in BOOLEAN : DoGrowAppend(text, mv)

SpecGrow == InitRef /\ [][NextGrow]_vars

\* C11 (SpecGrow): a builder created with capacity c >= 1 starts empty, and
\* every append of a non-empty text to it succeeds, adds the length of the
\* text to the length and leaves the content equal to the content before
\* followed by the text, with room for the terminator, whether or not the
\* buffer was reallocated; so k one-byte appends give length k and the k bytes
\* in order, and "AB" then "CD" give "ABCD" with capacity >= 5.
C11_GrowthKeepsContent ==
  [][/\ last'.op = "ds_builder_create_with_capacity" =>
          /\ heap'[sb'.data].length = 0
          /\ sb'.capacity = last'.index
     /\ (last'.op = "ds_builder_append" /\ sb.data # NULL) =>
          /\ last'.res = 1
          /\ heap'[sb'.data].length = heap[sb.data].length + Len(last'.text)
          /\ Content(heap', sb'.data) = Content(heap, sb.data) \o last'.text
          /\ sb'.capacity >= heap'[sb'.data].length + 1
          /\ ~oob']_vars

\* "AB" and "CD" were appended and the buffer has grown past every initial
\* capacity
C11_Witness ==
  /\ sb.data # NULL
  /\ Content(heap, sb.data) = <<65, 66, 67, 68>>
  /\ sb.capacity = 8
  /\ last.op = "ds_builder_append" /\ last.text = <<67, 68>> /\ last.res = 1

\* ------------------------------------------------ the end of a builder's life
\* what DS_REALLOC does in ds_builder_to_string
InPlace == 0
Moved   == 1
Failed  == 2
ReallocOutcomes == {InPlace, Moved, Failed}

\* ds_builder_to_string(sb): [heap, sb, ret]
ds_builder_to_string_short(hp, b, outcome) ==
  IF b.data = NULL THEN [heap |-> hp, sb |-> b, ret |-> NULL]
  ELSE LET r == realloc(hp, b.data, hp[b.data].length, outcome = Moved)
       IN  [heap |-> r.heap, sb |-> NoBuilder, ret |-> r.ptr]

ds_builder_to_string_keep(hp, b, outcome) ==
  IF b.data = NULL THEN [heap |-> hp, sb |-> b, ret |-> NULL]
  ELSE LET r == realloc(hp, b.data, hp[b.data].length + 1, outcome = Moved)
       IN  [heap |-> r.heap, sb |-> [b EXCEPT !.data = r.ptr], ret |-> r.ptr]

ds_builder_to_string(hp, b, outcome) ==
  IF b.data = NULL THEN [heap |-> hp, sb |-> b, ret |-> NULL]
  ELSE IF outcome = Failed
    THEN [heap |-> hp, sb |-> NoBuilder, ret |-> b.data]
  ELSE LET r == realloc(hp, b.data, hp[b.data].length + 1, outcome = Moved)
       IN  [heap |-> r.heap, sb |-> NoBuilder, ret |-> r.ptr]

\* ds_builder_destroy(sb): [heap, sb]
ds_builder_destroy(hp, b) ==
  [heap |-> ds_release(hp, b.data), sb |-> NoBuilder]

\* x = ds_builder_to_string(&sb)
DoBuilderToString(outcome) ==
  /\ last.op # "init" /\ HasDest
  /\ LET r == ds_builder_to_string(heap, sb, outcome)
     IN  /\ heap' = r.heap
         /\ sb' = r.sb
         /\ hv' = [hv EXCEPT ![Dest] = r.ret]
         /\ last' = Call("ds_builder_to_string", sb.data, r.ret, <<>>, outcome, 0)
  /\ UNCHANGED <<oob, iter, thr>>

\* ds_builder_destroy(&sb)
DoBuilderDestroy ==
  /\ last.op # "init"
  /\ LET r == ds_builder_destroy(heap, sb)
     IN  heap' = r.heap /\ sb' = r.sb
  /\ last' = Call("ds_builder_destroy", sb.data, NULL, <<>>, 0, 0)
  /\ UNCHANGED <<hv, oob, iter, thr>>

LifeCapacities == {4}
LifeTexts      == {<<>>, <<97>>}
LifeCodepoints == {98}

\* the builder exists (it was created; it may have been consumed since)
BuilderExists == last.op # "init"

NextLife ==
  \/ \E capacity \in LifeCapacities : DoBuilderCreate(capacity)
  \/ DoBuilderShare
  \/ \E i \in Handles : BuilderExists /\ DoRelease(i)
  \/ \E text \in LifeTexts, mv \in BOOLEAN : BuilderExists /\ DoBuilderAppend(text, mv)
  \/ \E codepoint \in LifeCodepoints, mv \in BOOLEAN :
       BuilderExists /\ DoBuilderAppendChar(codepoint, mv)
  \/ \E i \in Handles, mv \in BOOLEAN : BuilderExists /\ DoBuilderAppendString(i, mv)
  \/ \E index \in {0, MaxBuilderLen + 1}, text \in LifeTexts, mv \in BOOLEAN :
       BuilderExists /\ DoBuilderInsert(index, text, mv)
  \/ BuilderExists /\ DoBuilderClear
  \/ \E outcome \in ReallocOutcomes : DoBuilderToString(outcome)
  \/ DoBuilderDestroy

SpecLife == InitRef /\ [][NextLife]_vars

\* C12 (SpecLife): ds_builder_to_string on an active builder returns a live
\* string whose length and bytes are the builder's length and content just
\* before the call, with a NUL at index length: of exactly length + 1 data
\* bytes when the shrinking reallocation succeeds (in place or moving the
\* block), and the builder's own block, as large as it was, when it fails.
C12_ToStringKeepsContent ==
  [][(last'.op = "ds_builder_to_string" /\ sb.data # NULL) =>
       LET r == last'.res
           n == heap[sb.data].length
       IN  /\ r # NULL
           /\ heap'[r].st = "live"
           /\ heap'[r].length = n
           /\ Content(heap', r) = Content(heap, sb.data)
           /\ Len(heap'[r].data) >= n + 1
           /\ heap'[r].data[n + 1] = NUL
           /\ IF last'.index = Failed
                THEN r = sb.data /\ heap'[r].data = heap[sb.data].data
                ELSE Len(heap'[r].data) = n + 1
           /\ last'.index = InPlace => r = sb.data
           /\ ~oob']_vars

\* the reallocation failed and the string handed out is the builder's
\* oversized block with its content
C12_Witness ==
  /\ last.op = "ds_builder_to_string" /\ last.index = Failed
  /\ last.res # NULL /\ last.res = last.arg
  /\ heap[last.res].length >= 1
  /\ Len(heap[last.res].data) > heap[last.res].length + 1

\* C13 (SpecLife), as claimed: the string returned by ds_builder_to_string has
\* reference count exactly 1, whatever builder calls and external ds_retain /
\* ds_release calls on the builder's block came before.
C13_ToStringRefcountOne ==
  (last.op = "ds_builder_to_string" /\ last.res # NULL) =>
    heap[last.res].refcount = 1

\* the builder was consumed or destroyed
Consumed == sb.data = NULL /\ BuilderExists

LifeCalls == BuilderMutators \cup {"ds_builder_to_string", "ds_builder_destroy"}

Finished ==
  /\ Consumed
  /\ last.op \in {"ds_builder_destroy", "ds_release"}
  /\ \A i \in Handles : hv[i] = NULL

\* C15 (SpecLife), as claimed: when a sequence of builder calls has ended with
\* the builder destroyed (or consumed) and every string handle obtained from
\* it released, every block allocated for the builder has been freed exactly
\* once, none is still allocated and no freed memory was used.
C15_EveryBlockFreedOnce ==
  Finished =>
    /\ \A b \in Blocks :
         /\ heap[b].st # "live"
         /\ heap[b].st = "freed" => heap[b].frees = 1
    /\ ~oob

\* the builder calls that return a success flag
FlagCalls == {"ds_builder_append", "ds_builder_append_char",
              "ds_builder_append_string", "ds_builder_insert"}

\* C16 (SpecLife): ds_builder_insert with an index greater than the builder's
\* length returns 0, and every builder call that returns 0 leaves the
\* builder's block, with its content, length and reference count, and the
\* builder's capacity exactly as they were.
C16_FailureChangesNothing ==
  [][/\ (last'.op = "ds_builder_insert" /\ sb.data # NULL
         /\ last'.index > heap[sb.data].length) => last'.res = 0
     /\ (last'.op \in FlagCalls /\ last'.res = 0) =>
          heap' = heap /\ sb' = sb /\ hv' = hv]_vars

\* an insert past the end of a shared, non-empty builder returned 0 and the
\* block is still shared
C16_Witness ==
  /\ last.op = "ds_builder_insert" /\ last.text # <<>> /\ last.res = 0
  /\ sb.data # NULL /\ sb.data = last.arg
  /\ last.index > heap[sb.data].length
  /\ heap[sb.data].length >= 1
  /\ heap[sb.data].refcount = 2

\* C17 as stated: ds_builder_clear on an active builder sets the length to 0
\* and the content to the empty string and leaves the capacity equal to the
\* capacity before the call.
C17_ClearKeepsCapacity ==
  [][(last'.op = "ds_builder_clear" /\ sb.data # NULL) =>
       /\ heap'[sb'.data].length = 0
       /\ sb'.capacity = sb.capacity]_vars

\* C17 amended (SpecSB): ds_builder_clear on an active builder sets the length
\* to 0 and the content to the empty string, terminated; the capacity is the
\* capacity before the call when the builder's block is not shared, and when
\* it is shared the builder moves to a copy whose capacity is the length
\* before the call plus 1, which is at most the capacity before; an append
\* that follows the clear succeeds and leaves exactly the appended text.
C17_ClearKeepsCapacityUnlessShared ==
  [][/\ (last'.op = "ds_builder_clear" /\ sb.data # NULL) =>
          /\ heap'[sb'.data].length = 0
          /\ Content(heap', sb'.data) = <<>>
          /\ heap'[sb'.data].data[1] = NUL
          /\ IF heap[sb.data].refcount <= 1
               THEN sb'.capacity = sb.capacity /\ sb'.data = sb.data
               ELSE /\ sb'.capacity = heap[sb.data].length + 1
                    /\ sb'.capacity <= sb.capacity
                    /\ sb'.data # sb.data
     /\ (last.op = "ds_builder_clear" /\ sb.data # NULL
         /\ last'.op = "ds_builder_append" /\ last'.text # <<>>) =>
          /\ last'.res = 1
          /\ Content(heap', sb'.data) = last'.text]_vars

\* a builder that held a byte was cleared in its own block and kept its
\* capacity
C17_Witness ==
  /\ last.op = "ds_builder_clear" /\ last.res = 1
  /\ sb.data # NULL /\ sb.data = last.arg
  /\ heap[sb.data].length = 0
  /\ sb.capacity >= 2
  /\ heap[sb.data].data[2] # Uninit

\* ------------------------------------------------------------ UTF-8 decoder
\* ds_decode_utf8_at(data, pos, end, &bytes_consumed): data is the byte array
\* (bytes as unsigned char), pos and end are 0-based offsets
ds_decode_utf8_at_late(data, pos, end) ==
  IF pos >= end THEN [codepoint |-> 0, bytes_consumed |-> 0, reads |-> <<>>]
  ELSE LET first == data[pos + 1]
       IN  IF first <= 127
             THEN [codepoint |-> first, bytes_consumed |-> 1, reads |-> <<pos>>]
           ELSE IF BitAnd(first, 224) = 192 THEN
             IF pos + 1 >= end
               THEN [codepoint |-> 0, bytes_consumed |-> 0, reads |-> <<pos>>]
             ELSE [codepoint |-> BitOr(Shl(BitAnd(first, 31), 6),
                                       BitAnd(data[pos + 2], 63)),
                   bytes_consumed |-> 2, reads |-> <<pos, pos + 1>>]
           ELSE IF BitAnd(first, 240) = 224 THEN
             IF pos + 1 >= end
               THEN [codepoint |-> 0, bytes_consumed |-> 0, reads |-> <<pos>>]
             ELSE [codepoint |-> BitOr(BitOr(Shl(BitAnd(first, 15), 12),
                                             Shl(BitAnd(data[pos + 2], 63), 6)),
                                       BitAnd(data[pos + 3], 63)),
                   bytes_consumed |-> 3, reads |-> <<pos, pos + 1, pos + 2>>]
           ELSE IF BitAnd(first, 248) = 240 THEN
             IF pos + 3 >= end
               THEN [codepoint |-> 0, bytes_consumed |-> 0, reads |-> <<pos>>]
             ELSE [codepoint |-> BitOr(BitOr(BitOr(Shl(BitAnd(first, 7), 18),
                                                   Shl(BitAnd(data[pos + 2], 63), 12)),
                                             Shl(BitAnd(data[pos + 3], 63), 6)),
                                       BitAnd(data[pos + 4], 63)),
                   bytes_consumed |-> 4,
                   reads |-> <<pos, pos + 1, pos + 2, pos + 3>>]
           ELSE [codepoint |-> 65533, bytes_consumed |-> 1, reads |-> <<pos>>]

ds_decode_utf8_at(data, pos, end) ==
  IF pos >= end THEN [codepoint |-> 0, bytes_consumed |-> 0, reads |-> <<>>]
  ELSE LET first == data[pos + 1]
       IN  IF first <= 127
             THEN [codepoint |-> first, bytes_consumed |-> 1, reads |-> <<pos>>]
           ELSE IF BitAnd(first, 224) = 192 THEN
             IF pos + 1 >= end
               THEN [codepoint |-> 0, bytes_consumed |-> 0, reads |-> <<pos>>]
             ELSE [codepoint |-> BitOr(Shl(BitAnd(first, 31), 6),
                                       BitAnd(data[pos + 2], 63)),
                   bytes_consumed |-> 2, reads |-> <<pos, pos + 1>>]
           ELSE IF BitAnd(first, 240) = 224 THEN
             IF pos + 2 >= end
               THEN [codepoint |-> 0, bytes_consumed |-> 0, reads |-> <<pos>>]
             ELSE [codepoint |-> BitOr(BitOr(Shl(BitAnd(first, 15), 12),
                                             Shl(BitAnd(data[pos + 2], 63), 6)),
                                       BitAnd(data[pos + 3], 63)),
                   bytes_consumed |-> 3, reads |-> <<pos, pos + 1, pos + 2>>]
           ELSE IF BitAnd(first, 248) = 240 THEN
             IF pos + 3 >= end
               THEN [codepoint |-> 0, bytes_consumed |-> 0, reads |-> <<pos>>]
             ELSE [codepoint |-> BitOr(BitOr(BitOr(Shl(BitAnd(first, 7), 18),
                                                   Shl(BitAnd(data[pos + 2], 63), 12)),
                                             Shl(BitAnd(data[pos + 3], 63), 6)),
                                       BitAnd(data[pos + 4], 63)),
                   bytes_consumed |-> 4,
                   reads |-> <<pos, pos + 1, pos + 2, pos + 3>>]
           ELSE [codepoint |-> 65533, bytes_consumed |-> 1, reads |-> <<pos>>]

\* ------------------------------------------------- encoding and decoding back
\* A codepoint is encoded and the bytes are decoded from position 0.
MaxCodepoint == 1114111       \* 0x10FFFF

Surrogates == 55296..57343    \* 0xD800..0xDFFF

\* the codepoints tried: every range end and its neighbours, the powers of two
\* and their predecessors up to the largest integer the checker represents,
\* and stretches of each encoded length
SampleCodepoints ==
  (0..300) \cup (2000..2100) \cup (55200..55400) \cup (57300..57400)
  \cup (65500..65600) \cup (1114000..1114200)
  \cup {2 ^ j : j \in 0..30} \cup {2 ^ j - 1 : j \in 0..30} \cup {2147483647}

InitUtf8 ==
  /\ heap = EmptyHeap
  /\ hv = [i \in Handles |-> NULL]
  /\ sb = NoBuilder
  /\ \E codepoint \in SampleCodepoints :
       last = Call("init", NULL, NULL, <<>>, codepoint, 0)
  /\ oob = FALSE
  /\ iter = NoIter
  /\ thr = NoThreads

\* bytes_needed = ds_encode_utf8(codepoint, utf8_buffer)
DoEncode ==
  /\ last.op = "init"
  /\ last' = Call("ds_encode_utf8", NULL, Len(ds_encode_utf8(last.index)),
                  ds_encode_utf8(last.index), last.index, 0)
  /\ UNCHANGED <<heap, hv, sb, oob, iter, thr>>

\* codepoint = ds_decode_utf8_at(utf8_buffer, 0, bytes_needed, &bytes_consumed)
DoDecode ==
  /\ last.op = "ds_encode_utf8"
  /\ LET d == ds_decode_utf8_at(last.text, 0, Len(last.text))
     IN  last' = Call("ds_decode_utf8_at", NULL, d.codepoint, last.text,
                      last.index, d.bytes_consumed)
  /\ UNCHANGED <<heap, hv, sb, oob, iter, thr>>

NextUtf8 == DoEncode \/ DoDecode

SpecUtf8 == InitUtf8 /\ [][NextUtf8]_vars

\* the number of bytes UTF-8 uses for a codepoint
Utf8Len(c) == IF c <= 127 THEN 1 ELSE IF c <= 2047 THEN 2
              ELSE IF c <= 65535 THEN 3 ELSE 4

\* C18 (SpecUtf8): for a codepoint c up to 0x10FFFF that is no surrogate,
\* ds_encode_utf8 writes 1, 2, 3 or 4 bytes by range, and decoding them from
\* position 0 returns c and consumes all of them; for c above 0x10FFFF the
\* bytes are EF BF BD and decoding them returns 0xFFFD.
C18_Utf8RoundTrip ==
  last.op = "ds_decode_utf8_at" =>
    LET c == last.index
    IN  /\ (c <= MaxCodepoint /\ c \notin Surrogates) =>
             /\ Len(last.text) = Utf8Len(c)
             /\ last.res = c
             /\ last.len = Len(last.text)
        /\ c > MaxCodepoint =>
             /\ last.text = <<239, 191, 189>>
             /\ last.res = 65533
             /\ last.len = 3

\* the largest codepoint went through four bytes and came back
C18_Witness ==
  /\ last.op = "ds_decode_utf8_at"
  /\ last.index = MaxCodepoint
  /\ Len(last.text) = 4 /\ last.res = MaxCodepoint /\ last.len = 4

\* C19 (SpecOps), as claimed: ds_append_char with a codepoint that is not valid
\* to store (above 0x10FFFF, or a surrogate 0xD800..0xDFFF) appends the
\* replacement bytes EF BF BD, adding exactly 3 to the length, and the bytes
\* ds_append_char appends never decode to a surrogate or to a value above
\* 0x10FFFF.
C19_InvalidCodepointsReplaced ==
  (last.op = "ds_append_char" /\ last.arg # NULL) =>
    LET c == last.index
        s == last.arg
        r == last.res
        L == heap[s].length
        appended == SubSeq(Content(heap, r), L + 1, heap[r].length)
        d == ds_decode_utf8_at(appended, 0, Len(appended))
    IN  /\ (c > MaxCodepoint \/ c \in Surrogates) =>
             /\ heap[r].length = L + 3
             /\ appended = <<239, 191, 189>>
        /\ d.codepoint \notin Surrogates
        /\ d.codepoint <= MaxCodepoint

\* ------------------------------------------------------ the codepoint iterator
\* the bytes iter->data points to: the string's block, or the literal ""
IterData(hp, it) == IF it.data = NULL THEN <<NUL>> ELSE hp[it.data].data

\* ds_codepoints(str): the iterator
ds_codepoints(hp, str) ==
  IF str # NULL THEN [data |-> str, pos |-> 0, end |-> hp[str].length]
  ELSE [data |-> NULL, pos |-> 0, end |-> 0]

ds_iter_next_onebyte(hp, it) ==
  IF it.pos >= it.end THEN [iter |-> it, ret |-> 0]
  ELSE LET d == ds_decode_utf8_at(IterData(hp, it), it.pos, it.end)
       IN  IF d.bytes_consumed = 0 THEN [iter |-> it, ret |-> 0]
           ELSE [iter |-> [it EXCEPT !.pos = it.pos + 1], ret |-> d.codepoint]

\* ds_iter_next(&iter): [iter, ret]
ds_iter_next(hp, it) ==
  IF it.pos >= it.end THEN [iter |-> it, ret |-> 0]
  ELSE LET d == ds_decode_utf8_at(IterData(hp, it), it.pos, it.end)
       IN  IF d.bytes_consumed = 0 THEN [iter |-> it, ret |-> 0]
           ELSE [iter |-> [it EXCEPT !.pos = it.pos + d.bytes_consumed],
                 ret |-> d.codepoint]

\* ds_iter_has_next(&iter)
ds_iter_has_next(it) == IF it.pos < it.end THEN 1 ELSE 0

\* The caller holds one string of any bytes (made by ds_create_length), makes
\* an iterator over it (or over NULL), and calls next and has_next in any order.
MaxIterLen == 3
IterByte   == {0, 97, 169, 195, 226}
IterBuf    == UNION {[1..k -> IterByte] : k \in 0..MaxIterLen}

InitIter ==
  /\ \E buf \in IterBuf :
       heap = ds_create_length(EmptyHeap, 1, buf \o <<NUL>>, Len(buf), <<>>)
  /\ hv = [i \in Handles |-> IF i = 1 THEN 1 ELSE NULL]
  /\ sb = NoBuilder
  /\ last = Call("init", NULL, NULL, <<>>, 0, 0)
  /\ oob = FALSE
  /\ iter = NoIter
  /\ thr = NoThreads

\* iter = ds_codepoints(hv[i])
DoCodepoints(i) ==
  /\ iter' = ds_codepoints(heap, hv[i])
  /\ last' = Call("ds_codepoints", hv[i], NULL, <<>>, i, 0)
  /\ UNCHANGED <<heap, hv, sb, oob, thr>>

\* the caller has an iterator
IterExists == last.op # "init"

\* c = ds_iter_next(&iter); the record keeps the position before the call
DoIterNext ==
  /\ IterExists
  /\ LET r == ds_iter_next(heap, iter)
     IN  /\ iter' = r.iter
         /\ last' = Call("ds_iter_next", iter.data, r.ret, <<>>, iter.pos, 0)
  /\ UNCHANGED <<heap, hv, sb, oob, thr>>

\* b = ds_iter_has_next(&iter)
DoIterHasNext ==
  /\ IterExists
  /\ last' = Call("ds_iter_has_next", iter.data, ds_iter_has_next(iter), <<>>,
                  iter.pos, 0)
  /\ UNCHANGED <<heap, hv, sb, oob, iter, thr>>

NextIter ==
  \/ \E i \in Handles : DoCodepoints(i)
  \/ DoIterNext
  \/ DoIterHasNext

SpecIter == InitIter /\ [][NextIter]_vars

\* C20 (SpecIter), as claimed: whenever ds_iter_next has returned 0, the
\* iterator is exhausted (pos >= end), ds_iter_has_next returns 0, and a
\* further ds_iter_next returns 0 and leaves the iterator as it is.  (The
\* iterator changes only through ds_iter_next, so this carries on from then
\* on.)
C20_ZeroOnlyAtEnd ==
  (last.op = "ds_iter_next" /\ last.res = 0) =>
    /\ iter.pos >= iter.end
    /\ ds_iter_has_next(iter) = 0
    /\ ds_iter_next(heap, iter) = [iter |-> iter, ret |-> 0]

\* C21 (SpecIter), as claimed: every ds_iter_next call made while
\* ds_iter_has_next is true moves pos forward by between 1 and 4 bytes and
\* keeps pos <= end (so that the loop over has_next/next ends after at most
\* end calls).
C21_NextAdvances ==
  [][(last'.op = "ds_iter_next" /\ last' # last /\ ds_iter_has_next(iter) = 1) =>
       /\ iter'.pos - iter.pos \in 1..4
       /\ iter'.pos <= iter'.end]_vars

\* ------------------------------------------- codepoints written and read back
\* the loop of ds_codepoint_length: the calls to ds_iter_next that return
\* non-zero
RECURSIVE CountFrom(_, _)
CountFrom(hp, it) ==
  LET r == ds_iter_next(hp, it)
  IN  IF r.ret = 0 THEN 0 ELSE 1 + CountFrom(hp, r.iter)

\* ds_codepoint_length(str)
ds_codepoint_length(hp, str) ==
  IF str = NULL THEN 0 ELSE CountFrom(hp, ds_codepoints(hp, str))

\* the loop of ds_codepoint_at
RECURSIVE AtFrom(_, _, _, _)
AtFrom(hp, it, current_index, index) ==
  LET r == ds_iter_next(hp, it)
  IN  IF r.ret = 0 THEN 0
      ELSE IF current_index = index THEN r.ret
      ELSE AtFrom(hp, r.iter, current_index + 1, index)

\* ds_codepoint_at(str, index)
ds_codepoint_at(hp, str, index) ==
  IF str = NULL THEN 0 ELSE AtFrom(hp, ds_codepoints(hp, str), 0, index)

\* The caller picks a sequence of codepoints, appends them to a fresh builder
\* with ds_builder_append_char, takes the string with ds_builder_to_string, and
\* reads it back.  Every call record keeps the sequence in its text field.
MaxSeqLen == 2
\* non-zero, non-surrogate codepoints: the ends of each encoded length
RoundCodepoints ==
  {1, 65, 127, 128, 233, 2047, 2048, 8364, 55295, 57344, 65535, 65536, 128640,
   1114111}
RoundSeqs == UNION {[1..k -> RoundCodepoints] : k \in 0..MaxSeqLen}

InitRound ==
  /\ heap = EmptyHeap
  /\ hv = [i \in Handles |-> NULL]
  /\ sb = NoBuilder
  /\ \E cs \in RoundSeqs : last = Call("init", NULL, NULL, cs, 0, 0)
  /\ oob = FALSE
  /\ iter = NoIter
  /\ thr = NoThreads

\* the builder after ds_builder_append_char of cs[k], ..., cs[Len(cs)]
RECURSIVE AppendChars(_, _, _)
AppendChars(c, cs, k) ==
  IF k > Len(cs) THEN c
  ELSE AppendChars(ds_builder_append_char(c.heap, c.sb, cs[k], FALSE), cs, k + 1)

\* sb = ds_builder_create(); ds_builder_append_char(&sb, c) for each c;
\* x = ds_builder_to_string(&sb)
DoBuildString(outcome) ==
  /\ last.op = "init"
  /\ LET b == ds_builder_create_with_capacity(heap, NewBlock, DS_SB_INITIAL_CAPACITY)
         c == AppendChars([heap |-> b.heap, sb |-> b.sb, ret |-> 1, oob |-> FALSE],
                          last.text, 1)
         r == ds_builder_to_string(c.heap, c.sb, outcome)
     IN  /\ heap' = r.heap
         /\ sb' = r.sb
         /\ hv' = [hv EXCEPT ![1] = r.ret]
         /\ oob' = (oob \/ c.oob)
         /\ last' = Call("ds_builder_to_string", NULL, r.ret, last.text, 0, 0)
  /\ UNCHANGED <<iter, thr>>

\* the caller holds the built string
Built == hv[1] # NULL

\* n = ds_codepoint_length(hv[1])
DoCodepointLength ==
  /\ Built
  /\ last' = Call("ds_codepoint_length", hv[1], ds_codepoint_length(heap, hv[1]),
                  last.text, 0, 0)
  /\ UNCHANGED <<heap, hv, sb, oob, iter, thr>>

\* c = ds_codepoint_at(hv[1], index)
DoCodepointAt(index) ==
  /\ Built
  /\ last' = Call("ds_codepoint_at", hv[1], ds_codepoint_at(heap, hv[1], index),
                  last.text, index, 0)
  /\ UNCHANGED <<heap, hv, sb, oob, iter, thr>>

\* iter = ds_codepoints(hv[1]): a fresh iterator; len counts its next calls
DoRoundCodepoints ==
  /\ Built
  /\ iter' = ds_codepoints(heap, hv[1])
  /\ last' = Call("ds_codepoints", hv[1], NULL, last.text, 0, 0)
  /\ UNCHANGED <<heap, hv, sb, oob, thr>>

\* c = ds_iter_next(&iter), straight after ds_codepoints or another next; the
\* record's len is the number of next calls made on this iterator
DoRoundNext ==
  /\ last.op \in {"ds_codepoints", "ds_iter_next"}
  /\ last.len <= MaxSeqLen
  /\ LET r == ds_iter_next(heap, iter)
     IN  /\ iter' = r.iter
         /\ last' = Call("ds_iter_next", iter.data, r.ret, last.text, iter.pos,
                         last.len + 1)
  /\ UNCHANGED <<heap, hv, sb, oob, thr>>

NextRound ==
  \/ \E outcome \in ReallocOutcomes : DoBuildString(outcome)
  \/ DoCodepointLength
  \/ \E index \in 0..(MaxSeqLen + 1) : DoCodepointAt(index)
  \/ DoRoundCodepoints
  \/ DoRoundNext

SpecRound == InitRound /\ [][NextRound]_vars

\* C22 (SpecRound): the string built by appending the non-zero, non-surrogate
\* codepoints c1..cn reads back as that sequence: the k-th ds_iter_next on a
\* fresh iterator (the first or a later one) returns ck for k <= n and 0
\* after that, ds_codepoint_length returns n, and ds_codepoint_at(i) returns
\* c(i+1) for i < n and 0 for i >= n.
C22_CodepointsReadBack ==
  LET cs == last.text
      n  == Len(cs)
  IN  /\ last.op = "ds_iter_next" =>
            last.res = (IF last.len <= n THEN cs[last.len] ELSE 0)
      /\ last.op = "ds_codepoint_length" => last.res = n
      /\ last.op = "ds_codepoint_at" =>
            last.res = (IF last.index < n THEN cs[last.index + 1] ELSE 0)

\* a two-codepoint string (a 4-byte and a 2-byte sequence) was read to its
\* end: the third ds_iter_next returned 0
C22_Witness ==
  /\ last.op = "ds_iter_next"
  /\ last.text = <<128640, 233>>
  /\ last.len = 3
  /\ last.res = 0
  /\ Content(heap, hv[1]) = <<240, 159, 154, 128, 195, 169>>

\* ------------------------------------------------------------- two threads
\* Two threads each hold one handle to the same string and call ds_retain and
\* ds_release on the handles they hold.  refcount++ and refcount-- are a load
\* and a store of the plain size_t field; the steps of the two threads
\* interleave.  thr[t].held counts the handles thread t holds, thr[t].tmp is
\* the value it loaded.
MaxCalls == 2        \* calls each thread makes

\* the string both threads share
Shared == 1

InitThreads ==
  /\ heap = ds_retain(ds_new(EmptyHeap, Shared, <<97>>), Shared)
  /\ hv = [i \in Handles |-> IF i \in Threads THEN Shared ELSE NULL]
  /\ sb = NoBuilder
  /\ last = Call("init", NULL, NULL, <<>>, 0, 0)
  /\ oob = FALSE
  /\ iter = NoIter
  /\ thr = [t \in Threads |-> [pc |-> "idle", tmp |-> 0, held |-> 1, calls |-> 0]]

\* thread t may start a call on a handle it holds
CanCall(t) ==
  thr[t].pc = "idle" /\ thr[t].held >= 1 /\ thr[t].calls < MaxCalls

\* the load of meta->refcount that starts refcount++ or refcount--
ThreadLoad(t, next_pc) ==
  /\ CanCall(t)
  /\ thr' = [thr EXCEPT ![t].tmp = heap[Shared].refcount, ![t].pc = next_pc,
                        ![t].calls = @ + 1]
  /\ oob' = (oob \/ Dangling(heap, Shared))
  /\ UNCHANGED <<heap, hv, sb, last, iter>>

\* ds_retain(str): ds_meta(str)->refcount++, the load
DoRetainLoad(t) == ThreadLoad(t, "retain_store")

\* ds_retain(str): the store, and the return of str
DoRetainStore(t) ==
  /\ thr[t].pc = "retain_store"
  /\ heap' = [heap EXCEPT ![Shared].refcount = (thr[t].tmp + 1) % SizeMod,
                          ![Shared].retains = @ + 1]
  /\ thr' = [thr EXCEPT ![t].pc = "idle", ![t].held = @ + 1]
  /\ last' = Call("ds_retain", Shared, Shared, <<>>, t, 0)
  /\ oob' = (oob \/ Dangling(heap, Shared))
  /\ UNCHANGED <<hv, sb, iter>>

\* ds_release(&str): meta->refcount--, the load
DoReleaseLoad(t) == ThreadLoad(t, "release_store")

\* ds_release(&str): the store
DoReleaseStore(t) ==
  /\ thr[t].pc = "release_store"
  /\ heap' = [heap EXCEPT ![Shared].refcount = (thr[t].tmp + SizeMod - 1) % SizeMod,
                          ![Shared].releases = @ + 1]
  /\ thr' = [thr EXCEPT ![t].pc = "release_test"]
  /\ oob' = (oob \/ Dangling(heap, Shared))
  /\ UNCHANGED <<hv, sb, last, iter>>

\* the values `meta->refcount == 0` can compare: the field read again, or the
\* value the thread has just stored, kept in a register
TestValues(t) ==
  {heap[Shared].refcount, (thr[t].tmp + SizeMod - 1) % SizeMod}

\* ds_release(&str): if (meta->refcount == 0) ds_dealloc(*str); *str = NULL
DoReleaseTest(t) ==
  /\ thr[t].pc = "release_test"
  /\ \E v \in TestValues(t) :
       heap' = IF v = 0 THEN ds_dealloc(heap, Shared) ELSE heap
  /\ thr' = [thr EXCEPT ![t].pc = "idle", ![t].held = @ - 1]
  /\ hv' = [hv EXCEPT ![t] = IF thr[t].held = 1 THEN NULL ELSE @]
  /\ last' = Call("ds_release", Shared, NULL, <<>>, t, 0)
  /\ oob' = (oob \/ Dangling(heap, Shared))
  /\ UNCHANGED <<sb, iter>>

NextThreads ==
  \/ \E t \in Threads : DoRetainLoad(t)
  \/ \E t \in Threads : DoRetainStore(t)
  \/ \E t \in Threads : DoReleaseLoad(t)
  \/ \E t \in Threads : DoReleaseStore(t)
  \/ \E t \in Threads : DoReleaseTest(t)

SpecThreads == InitThreads /\ [][NextThreads]_vars

\* no call is in progress
Quiescent == \A t \in Threads : thr[t].pc = "idle"

\* C23 (SpecThreads), as claimed: when the concurrent ds_retain and ds_release
\* calls of two threads have returned, no update is lost: the refcount is the
\* initial refcount plus the retains minus the releases, and the block has
\* been freed exactly once if that is zero and not at all otherwise (never
\* touched after it was freed).
C23_NoLostUpdate ==
  (thr # NoThreads /\ Quiescent) =>
    LET n == heap[Shared].retains
        m == heap[Shared].releases
    IN  /\ heap[Shared].refcount = 1 + n - m
        /\ heap[Shared].frees = (IF 1 + n - m = 0 THEN 1 ELSE 0)
        /\ ~oob

\* ------------------------------------------------------- NULL arguments
\* ds_concat(a, b): [heap, ret]
ds_concat(hp, blk, a, b) ==
  IF a = NULL /\ b = NULL THEN [heap |-> hp, ret |-> NULL]
  ELSE IF a = NULL THEN [heap |-> ds_retain(hp, b), ret |-> b]
  ELSE IF b = NULL THEN [heap |-> ds_retain(hp, a), ret |-> a]
  ELSE LET new_length == hp[a].length + hp[b].length
           h1 == ds_alloc(hp, blk, new_length)
           h2 == [h1 EXCEPT ![blk].data =
                    MemWrite(@, 0, MemRead(hp[a].data, 0, hp[a].length))]
           h3 == [h2 EXCEPT ![blk].data =
                    MemWrite(@, hp[a].length, MemRead(hp[b].data, 0, hp[b].length))]
       IN  [heap |-> h3, ret |-> blk]

\* the NULL pointer passed as a text argument (it is no C string)
NullText == <<Uninit>>

\* ds_new(NULL)
ds_new_nulltext(hp) == [heap |-> hp, ret |-> NULL]

\* ds_append(str, NULL), ds_prepend(str, NULL), ds_insert(str, index, NULL):
\* return str ? ds_retain(str) : NULL
ds_append_nulltext(hp, str) ==
  IF str # NULL THEN [heap |-> ds_retain(hp, str), ret |-> str]
  ELSE [heap |-> hp, ret |-> NULL]

ds_prepend_nulltext(hp, str) ==
  IF str # NULL THEN [heap |-> ds_retain(hp, str), ret |-> str]
  ELSE [heap |-> hp, ret |-> NULL]

ds_insert_nulltext(hp, str) ==
  IF str # NULL THEN [heap |-> ds_retain(hp, str), ret |-> str]
  ELSE [heap |-> hp, ret |-> NULL]

\* the accessors, by name
Queries == {"ds_length", "ds_refcount", "ds_is_shared", "ds_is_empty"}

Query(f, hp, str) ==
  IF f = "ds_length" THEN ds_length(hp, str)
  ELSE IF f = "ds_refcount" THEN ds_refcount(hp, str)
  ELSE IF f = "ds_is_shared" THEN (IF ds_is_shared(hp, str) THEN 1 ELSE 0)
  ELSE (IF ds_is_empty(hp, str) THEN 1 ELSE 0)

\* n = f(hv[i]) for an accessor f
DoQuery(f, i) ==
  /\ last' = Call(f, hv[i], Query(f, heap, hv[i]), <<>>, i, 0)
  /\ UNCHANGED <<heap, hv, sb, oob, iter, thr>>

\* x = ds_concat(hv[i], hv[j]); the record's index and len are b's variable and b
DoConcat(i, j) ==
  /\ HasDest /\ HasFresh(heap)
  /\ LET r == ds_concat(heap, NewBlock, hv[i], hv[j])
     IN  /\ heap' = r.heap
         /\ hv' = [hv EXCEPT ![Dest] = r.ret]
         /\ last' = Call("ds_concat", hv[i], r.ret, <<>>, j, hv[j])
  /\ UNCHANGED <<sb, oob, iter, thr>>

\* n = ds_compare(hv[i], hv[j]); the record's index and len are b's variable and b
DoCompare(i, j) ==
  /\ last' = Call("ds_compare", hv[i], ds_compare(heap, hv[i], hv[j]), <<>>, j,
                  hv[j])
  /\ UNCHANGED <<heap, hv, sb, oob, iter, thr>>

\* x = ds_new(NULL)
DoNewNull ==
  /\ HasDest
  /\ LET r == ds_new_nulltext(heap)
     IN  /\ heap' = r.heap
         /\ hv' = [hv EXCEPT ![Dest] = r.ret]
         /\ last' = Call("ds_new", NULL, r.ret, NullText, 0, 0)
  /\ UNCHANGED <<sb, oob, iter, thr>>

\* x = ds_append(hv[i], NULL), ds_prepend(hv[i], NULL), ds_insert(hv[i], index, NULL)
DoAppendNull(i) ==
  StringOp("ds_append", i, ds_append_nulltext(heap, hv[i]), NullText, 0, 0)

DoPrependNull(i) ==
  StringOp("ds_prepend", i, ds_prepend_nulltext(heap, hv[i]), NullText, 0, 0)

DoInsertNull(i, index) ==
  StringOp("ds_insert", i, ds_insert_nulltext(heap, hv[i]), NullText, index, 0)

\* x = ds_new(text) when DS_MALLOC returns NULL: ds_alloc invokes DS_ASSERT
DoNewNoMemory(text) ==
  /\ last' = [Call("ds_new", NULL, NULL, text, 0, 0) EXCEPT !.asserted = TRUE]
  /\ UNCHANGED <<heap, hv, sb, oob, iter, thr>>

\* The caller holds a string (possibly shared) and a NULL variable, and makes
\* one call.
NextNull ==
  \/ \E f \in Queries, i \in Handles : NoCallYet /\ DoQuery(f, i)
  \/ \E i \in Handles : NoCallYet /\ DoRetain(i)
  \/ \E i \in Handles, text \in CStr : NoCallYet /\ DoAppend(i, text)
  \/ \E i \in Handles, text \in CStr : NoCallYet /\ DoPrepend(i, text)
  \/ \E i \in Handles, index \in Indexes, text \in CStr :
       NoCallYet /\ DoInsert(i, index, text)
  \/ \E i \in Handles, start \in Indexes, len \in Indexes :
       NoCallYet /\ DoSubstring(i, start, len)
  \/ \E i \in Handles, j \in Handles : NoCallYet /\ DoConcat(i, j)
  \/ \E i \in Handles, j \in Handles : NoCallYet /\ DoCompare(i, j)
  \/ \E text \in CStr : NoCallYet /\ DoNew(text)
  \/ NoCallYet /\ DoNewNull
  \/ \E i \in Handles : NoCallYet /\ DoAppendNull(i)
  \/ \E i \in Handles : NoCallYet /\ DoPrependNull(i)
  \/ \E i \in Handles, index \in Indexes : NoCallYet /\ DoInsertNull(i, index)
  \/ \E text \in CStr : NoCallYet /\ DoNewNoMemory(text)

SpecNull == InitOps /\ [][NextNull]_vars

\* the last call got a NULL handle where a string is required, or a NULL text
NullHandleCall ==
  \/ /\ last.op \in Queries \cup {"ds_retain", "ds_append", "ds_prepend",
                                   "ds_insert", "ds_substring"}
     /\ last.arg = NULL
  \/ /\ last.op \in {"ds_concat", "ds_compare"}
     /\ (last.arg = NULL \/ last.len = NULL)

NullTextCall ==
  /\ last.op \in {"ds_new", "ds_append", "ds_prepend", "ds_insert"}
  /\ last.text = NullText

\* C24 (SpecNull), as claimed: a call of ds_length, ds_refcount, ds_is_shared,
\* ds_is_empty, ds_retain, ds_append, ds_prepend, ds_insert, ds_substring,
\* ds_concat or ds_compare with a NULL handle, or of ds_new, ds_append,
\* ds_prepend or ds_insert with a NULL text, invokes DS_ASSERT instead of
\* returning a value.
C24_NullIsAsserted ==
  (NullHandleCall \/ NullTextCall) => last.asserted

\* ------------------------------------------------------ inserting into a builder
\* The caller creates a builder, appends and inserts texts of distinct bytes,
\* and may take a handle to the builder's block in between.
InsertTexts == {<<88>>, <<89, 90>>}

DoGrowInsert(index, text, mv) ==
  /\ sb.data # NULL /\ CanCopy
  /\ heap[sb.data].length + Len(text) <= MaxGrowLen
  /\ LET r == ds_builder_insert(heap, sb, index, text, mv)
     IN  /\ heap' = r.heap
         /\ sb' = r.sb
         /\ oob' = (oob \/ r.oob)
         /\ last' = Call("ds_builder_insert", sb.data, r.ret, text, index, 0)
  /\ UNCHANGED <<hv, iter, thr>>

NextInsert ==
  \/ \E capacity \in GrowCapacities : DoBuilderCreate(capacity)
  \/ DoBuilderShare
  \/ \E text \in GrowTexts, mv \in BOOLEAN : CanCopy /\ DoGrowAppend(text, mv)
  \/ \E index \in 0..MaxGrowLen, text \in InsertTexts, mv \in BOOLEAN :
       DoGrowInsert(index, text, mv)

SpecInsert == InitRef /\ [][NextInsert]_vars

\* C25 (SpecInsert): on an active builder with content old of length L,
\* ds_builder_insert(b, i, t) with a non-empty t and i <= L returns 1 and
\* leaves the builder with length L + len(t) and the content old[0..i), t,
\* old[i..L), NUL-terminated inside its allocation, also when the call grows
\* the buffer or copies a shared block first.
C25_InsertPlacesText ==
  [][(/\ last'.op = "ds_builder_insert" /\ sb.data # NULL
      /\ last'.text # <<>>
      /\ last'.index <= heap[sb.data].length) =>
       LET old == Content(heap, sb.data)
           L   == heap[sb.data].length
           i   == last'.index
           t   == last'.text
           d   == sb'.data
       IN  /\ last'.res = 1
           /\ d # NULL
           /\ heap'[d].st = "live"
           /\ heap'[d].length = L + Len(t)
           /\ Len(heap'[d].data) >= L + Len(t) + 1
           /\ Content(heap', d) = SubSeq(old, 1, i) \o t \o SubSeq(old, i + 1, L)
           /\ heap'[d].data[L + Len(t) + 1] = NUL
           /\ oob' = oob]_vars

\* "YZ" was inserted in the middle of "AB" while a handle shared the block:
\* the builder moved to a copy and grew, the handle still shows "AB"
C25_Witness ==
  /\ last.op = "ds_builder_insert" /\ last.res = 1
  /\ last.text = <<89, 90>> /\ last.index = 1
  /\ sb.data # NULL /\ hv[1] # NULL /\ hv[1] # sb.data
  /\ heap[hv[1]].st = "live"
  /\ Content(heap, hv[1]) = <<65, 66>>
  /\ Content(heap, sb.data) = <<65, 89, 90, 66>>
  /\ sb.capacity >= 5

\* ----------------------------------------------------- decoding at any position
\* The caller holds a string of any bytes and an iterator structure over it
\* with any pos and any end within the string, and decodes at pos.
MaxDecLen == 4
DecByte   == {97, 169, 195, 226, 240, 255}
DecBuf    == UNION {[1..k -> DecByte] : k \in 0..MaxDecLen}

InitDecode ==
  /\ \E buf \in DecBuf :
       /\ heap = ds_create_length(EmptyHeap, 1, buf \o <<NUL>>, Len(buf), <<>>)
       /\ \E pos \in 0..(MaxDecLen + 1), end \in 0..Len(buf) :
            iter = [data |-> 1, pos |-> pos, end |-> end]
  /\ hv = [i \in Handles |-> IF i = 1 THEN 1 ELSE NULL]
  /\ sb = NoBuilder
  /\ last = Call("init", NULL, NULL, <<>>, 0, 0)
  /\ oob = FALSE
  /\ thr = NoThreads

\* c = ds_decode_utf8_at(iter.data, iter.pos, iter.end, &bytes_consumed); the
\* record's len is bytes_consumed and its text lists the indices read
DoDecodeAt ==
  /\ last.op = "init"
  /\ LET d == ds_decode_utf8_at(IterData(heap, iter), iter.pos, iter.end)
     IN  last' = Call("ds_decode_utf8_at", iter.data, d.codepoint, d.reads,
                      iter.pos, d.bytes_consumed)
  /\ UNCHANGED <<heap, hv, sb, oob, iter, thr>>

NextDecode == DoDecodeAt

SpecDecode == InitDecode /\ [][NextDecode]_vars

\* the length the lead byte announces: 2, 3 or 4 for the patterns 110xxxxx,
\* 1110xxxx and 11110xxx, 1 for any other byte
Announced(first) ==
  IF first >= 192 /\ first <= 223 THEN 2
  ELSE IF first >= 224 /\ first <= 239 THEN 3
  ELSE IF first >= 240 /\ first <= 247 THEN 4
  ELSE 1

\* C26 (SpecDecode): ds_decode_utf8_at reads only bytes at indices in
\* [pos, end); bytes_consumed is 0 exactly when pos >= end or the lead byte
\* announces a 2-, 3- or 4-byte sequence that would extend past end, and is
\* otherwise between 1 and 4 with pos + bytes_consumed <= end.
C26_DecodeStaysInRange ==
  last.op = "ds_decode_utf8_at" =>
    LET pos == iter.pos
        end == iter.end
        n   == last.len
        truncated ==
          IF pos >= end THEN TRUE
          ELSE pos + Announced(IterData(heap, iter)[pos + 1]) > end
    IN  /\ \A k \in 1..Len(last.text) : pos <= last.text[k] /\ last.text[k] < end
        /\ (n = 0) <=> truncated
        /\ n # 0 => (n \in 1..4 /\ pos + n <= end)

\* a 3-byte lead byte one byte before end: nothing consumed, one byte read
C26_Witness ==
  /\ last.op = "ds_decode_utf8_at"
  /\ iter.pos = 1 /\ iter.end = 3
  /\ heap[1].length = 4
  /\ IterData(heap, iter)[2] = 226
  /\ last.len = 0 /\ last.text = <<1>>

\* ------------------------------------------------------ case transformation
\* toupper and tolower of <ctype.h> in the "C" locale, on an unsigned char value
toupper(c) == IF c >= 97 /\ c <= 122 THEN c - 32 ELSE c
tolower(c) == IF c >= 65 /\ c <= 90 THEN c + 32 ELSE c

\* the largest value the checker's integers hold; it stands for every uint32_t
\* value from 2^31 on (ds_encode_utf8 treats all values above 0x10FFFF alike)
UInt32Top == 2147483647

\* the uint32_t codepoint argument that the char (char)v becomes, for a byte
\* value v: a plain char is signed or unsigned, as the platform has it, and a
\* negative char converts to 2^32 - 256 + v
CharToCodepoint(v, signed_char) ==
  IF signed_char /\ v >= 128 THEN UInt32Top ELSE v

\* the loop of ds_to_upper / ds_to_lower from index i on (upper: which of the two)
RECURSIVE CaseLoop(_, _, _, _, _, _)
CaseLoop(c, bytes, i, len, upper, signed_char) ==
  IF i >= len THEN c
  ELSE LET ch == IF upper THEN toupper(bytes[i + 1]) ELSE tolower(bytes[i + 1])
       IN  CaseLoop(ds_builder_append_char(c.heap, c.sb,
                                           CharToCodepoint(ch, signed_char), FALSE),
                    bytes, i + 1, len, upper, signed_char)

\* the body the two functions share: [heap, ret]
CaseTransform(hp, blk, str, upper, signed_char, outcome) ==
  IF str = NULL THEN [heap |-> hp, ret |-> NULL]
  ELSE LET len == ds_length(hp, str)
       IN  IF len = 0 THEN [heap |-> ds_retain(hp, str), ret |-> str]
           ELSE LET b == ds_builder_create_with_capacity(hp, blk, len)
                    c == CaseLoop([heap |-> b.heap, sb |-> b.sb, ret |-> 1,
                                   oob |-> FALSE],
                                  hp[str].data, 0, len, upper, signed_char)
                    r == ds_builder_to_string(c.heap, c.sb, outcome)
                    d == ds_builder_destroy(r.heap, r.sb)
                IN  [heap |-> d.heap, ret |-> r.ret]

\* ds_to_upper(str), ds_to_lower(str)
ds_to_upper(hp, blk, str, signed_char, outcome) ==
  CaseTransform(hp, blk, str, TRUE, signed_char, outcome)

ds_to_lower(hp, blk, str, signed_char, outcome) ==
  CaseTransform(hp, blk, str, FALSE, signed_char, outcome)

\* The caller holds a string of ASCII letters, digits and the bytes of
\* multi-byte sequences, possibly shared, and makes one call.
CaseByte == {49, 65, 97, 122, 169, 195}
CaseBuf  == UNION {[1..k -> CaseByte] : k \in 0..MaxLen}

InitCase ==
  /\ \E buf \in CaseBuf, shared \in BOOLEAN :
       /\ heap = SourceHeap(buf, shared)
       /\ hv = [i \in Handles |-> IF i = 1 \/ (i = 2 /\ shared) THEN 1 ELSE NULL]
  /\ sb = NoBuilder
  /\ last = Call("init", NULL, NULL, <<>>, 0, 0)
  /\ oob = FALSE
  /\ iter = NoIter
  /\ thr = NoThreads

\* x = ds_to_upper(hv[i])
DoToUpper(i, signed_char, outcome) ==
  /\ NoCallYet
  /\ StringOp("ds_to_upper", i,
              ds_to_upper(heap, NewBlock, hv[i], signed_char, outcome), <<>>, 0, 0)

\* x = ds_to_lower(hv[i])
DoToLower(i, signed_char, outcome) ==
  /\ NoCallYet
  /\ StringOp("ds_to_lower", i,
              ds_to_lower(heap, NewBlock, hv[i], signed_char, outcome), <<>>, 0, 0)

NextCase ==
  \/ \E i \in Handles, signed_char \in BOOLEAN, outcome \in ReallocOutcomes :
       DoToUpper(i, signed_char, outcome)
  \/ \E i \in Handles, signed_char \in BOOLEAN, outcome \in ReallocOutcomes :
       DoToLower(i, signed_char, outcome)

SpecCase == InitCase /\ [][NextCase]_vars

\* C27 (SpecCase), as claimed: the result of ds_to_upper and ds_to_lower has
\* the byte length of the input, every byte >= 0x80 is copied unchanged, and
\* every ASCII byte is mapped by toupper / tolower.
C27_CaseKeepsOtherBytes ==
  (last.op \in {"ds_to_upper", "ds_to_lower"} /\ last.arg # NULL) =>
    LET s == last.arg
        r == last.res
    IN  /\ r # NULL
        /\ heap[r].st = "live"
        /\ heap[r].length = heap[s].length
        /\ \A k \in 1..heap[s].length :
             heap[r].data[k] =
               (IF heap[s].data[k] >= 128 THEN heap[s].data[k]
                ELSE IF last.op = "ds_to_upper" THEN toupper(heap[s].data[k])
                ELSE tolower(heap[s].data[k]))

\* C28 (SpecLife), as claimed: a handle the caller took with ds_retain on the
\* builder's block stays valid until the caller releases it: no builder call,
\* ds_builder_to_string and ds_builder_destroy included, frees, resizes or
\* moves the block the handle points to or changes its bytes or its length.
C28_RetainedHandleStaysValid ==
  [][\A i \in Handles :
       (/\ hv[i] # NULL
        /\ heap[hv[i]].st = "live"
        /\ last'.op \in LifeCalls) =>
         /\ heap'[hv[i]].st = "live"
         /\ heap'[hv[i]].data = heap[hv[i]].data
         /\ heap'[hv[i]].length = heap[hv[i]].length]_vars

\* ------------------------------------------------ substring with any length
\* len values at both ends of size_t
WideLens == {0, 1, 2, SizeMod - 2, SizeMod - 1}

\* what the bytes past the end of the source's block may hold (a sample: all
\* the same byte)
SameJunk(over) == {[k \in 1..over |-> v] : v \in Byte}

\* x = ds_substring(hv[i], start, len) for any len of size_t
DoSubstringWide(i, start, len) ==
  /\ HasDest /\ HasFresh(heap)
  /\ LET over == SubstringOver(heap, hv[i], start, len)
     IN  /\ \E junk \in SameJunk(over) :
               LET r == ds_substring(heap, NewBlock, hv[i], start, len, junk)
               IN  /\ heap' = r.heap
                   /\ hv' = [hv EXCEPT ![Dest] = r.ret]
                   /\ last' = Call("ds_substring", hv[i], r.ret, <<>>, start, len)
         /\ oob' = (oob \/ over > 0)
  /\ UNCHANGED <<sb, iter, thr>>

NextWide ==
  \E i \in Handles, start \in 0..MaxLen, len \in WideLens :
    NoCallYet /\ DoSubstringWide(i, start, len)

SpecWide == InitOps /\ [][NextWide]_vars

\* C29 (SpecWide), as claimed: for a string s of length L, every start < L and
\* every len of size_t, also when start + len wraps around, ds_substring(s,
\* start, len) has length min(len, L - start), and it allocates and copies no
\* more than L - start bytes (and the terminator) and reads nothing outside
\* s's block.
C29_SubstringLengthIsClamped ==
  (/\ last.op = "ds_substring" /\ last.arg # NULL
   /\ last.index < heap[last.arg].length) =>
    LET L == heap[last.arg].length
        r == last.res
    IN  /\ r # NULL
        /\ heap[r].length = Min(last.len, L - last.index)
        /\ Len(heap[r].data) <= L - last.index + 1
        /\ ~oob

\* ------------------------------------------- the two ways to append a codepoint
\* The caller holds a string s, fills a fresh builder with s
\* (ds_builder_append_string), appends a codepoint to the builder
\* (ds_builder_append_char) and appends the same codepoint to s
\* (ds_append_char).
AgreeCodepoints  == {0, 1, 97, 127, 128, 233, 2048, 8364, 55296, 65536, 128640,
                     1114111, 1114112, 2147483647}
AgreeCapacities  == {0, 1}

\* a builder call with result r, on a builder of any length
BuilderStep(op, r, text, index) ==
  /\ heap' = r.heap
  /\ sb' = r.sb
  /\ oob' = (oob \/ r.oob)
  /\ last' = Call(op, sb.data, r.ret, text, index, 0)
  /\ UNCHANGED <<hv, iter, thr>>

\* ds_builder_append_string(&sb, hv[1]), right after the builder's creation
DoAgreeAppendString(mv) ==
  /\ last.op = "ds_builder_create_with_capacity"
  /\ BuilderStep("ds_builder_append_string",
                 ds_builder_append_string(heap, sb, hv[1], mv), <<>>, 1)

\* ds_builder_append_char(&sb, codepoint)
DoAgreeBuilderAppendChar(codepoint, mv) ==
  /\ last.op = "ds_builder_append_string"
  /\ BuilderStep("ds_builder_append_char",
                 ds_builder_append_char(heap, sb, codepoint, mv), <<>>, codepoint)

\* x = ds_append_char(hv[1], codepoint) with the codepoint the builder got
DoAgreeAppendChar ==
  /\ last.op = "ds_builder_append_char"
  /\ DoAppendChar(1, last.index)

NextAgree ==
  \/ \E capacity \in AgreeCapacities : DoBuilderCreate(capacity)
  \/ \E mv \in BOOLEAN : DoAgreeAppendString(mv)
  \/ \E codepoint \in AgreeCodepoints, mv \in BOOLEAN :
       DoAgreeBuilderAppendChar(codepoint, mv)
  \/ DoAgreeAppendChar

SpecAgree == InitOps /\ [][NextAgree]_vars

\* C30 (SpecAgree), as claimed: for a string s and a codepoint c (0 included),
\* the bytes and the length of ds_append_char(s, c) equal the content and the
\* length of the builder that held s after ds_builder_append_char(b, c), and
\* both are s followed by the ds_encode_utf8 bytes of c.
C30_AppendPathsAgree ==
  (last.op = "ds_append_char" /\ sb.data # NULL) =>
    LET s == last.arg
        r == last.res
        want == Content(heap, s) \o ds_encode_utf8(last.index)
    IN  /\ r # NULL
        /\ heap[r].length = heap[sb.data].length
        /\ Content(heap, r) = BuilderContent
        /\ BuilderContent = want
====
